---- MODULE Spec2Model ----
(***************************************************************************)
(* Ticket state machine, SLA breach detection and escalation rules of the  *)
(* escalated-django package (drivers/local.py, services/sla_service.py,    *)
(* services/escalation_service.py, handlers.py).                           *)
(*                                                                         *)
(* One ticket is followed through its life.  Time is counted in units of   *)
(* 30 minutes, so that the default warning threshold (30 minutes) is one   *)
(* unit and a policy entry of 0.5 hours is one unit.  Every operation      *)
(* leaves in `out` what it returned, the activity rows it inserted and the *)
(* signals it sent.  The clock starts when the ticket is created.          *)
(* An instant is a number of units since a Monday 00:00.  `settings` is    *)
(* the BUSINESS_HOURS setting and `rules` the escalation_rules table.      *)
(***************************************************************************)
EXTENDS Integers, Sequences, FiniteSets, TLC

VARIABLES created, ticket, now, out, settings, rules, policies, runs

vars == <<created, ticket, now, out, settings, rules, policies, runs>>

(* ------------------------------ bounds --------------------------------- *)

MaxTime == 2

(* the longest duration handed to _add_business_hours, in units            *)
MaxDuration == 18

(* the latest start instant handed to the SLA engine: Sunday 23:30         *)
MaxStart == 335

(* ------------------------------ values --------------------------------- *)

NoTime == -1

NoUser == "none"

NoDept == "none"

NoPolicy == "none"

Status ==
  {"open", "in_progress", "waiting_on_customer", "waiting_on_agent",
   "escalated", "resolved", "closed", "reopened"}

Priority == {"low", "medium", "high", "urgent", "critical"}

OpenStatuses ==
  {"open", "in_progress", "waiting_on_customer", "waiting_on_agent",
   "escalated", "reopened"}

Agents == {"agent1"}

Users == {"customer"} \cup Agents

Departments == {"dept1"}

PriorityInputs == {"low", "medium"}

UnitsPerHour == 2

DEFAULT_WARNING_THRESHOLD == 1

WarningThresholds == {1, 2}

UnitsPerDay == 24 * UnitsPerHour

(* SLA policy table: hours per priority, written in units (half hours).    *)
(* "default":  is_default, business_hours_only = False,                    *)
(*             first_response_hours = {"low": 1, "medium": 0.5},           *)
(*             resolution_hours     = {"medium": 0.5}                      *)
(* "business": business_hours_only = True,                                 *)
(*             first_response_hours = {"low": 3, "medium": 8},             *)
(*             resolution_hours     = {"medium": 9}                        *)
SlaPolicies == {"default", "business"}

(* The sla_policies table has at most MaxPolicies rows.  A row names the   *)
(* configuration (hours and business_hours_only) it carries.               *)
MaxPolicies == 3

PolicyIds == 1..MaxPolicies

NoRow == [name |-> NoPolicy, is_default |-> FALSE, is_active |-> FALSE]

PolicyRows == [name : SlaPolicies, is_default : BOOLEAN, is_active : BOOLEAN]

(* A table holding the one policy "default", marked as the default.        *)
SeededPolicies(active) ==
  [i \in PolicyIds |->
     IF i = 1 THEN [name |-> "default", is_default |-> TRUE, is_active |-> active]
     ELSE NoRow]

EmptyPolicies == [i \in PolicyIds |-> NoRow]

business_hours_only(policy) == policy = "business"

first_response_hours(policy) ==
  IF policy = "business"
    THEN [p \in {"low", "medium"} |->
            IF p = "low" THEN 3 * UnitsPerHour ELSE 8 * UnitsPerHour]
    ELSE [p \in {"low", "medium"} |-> IF p = "low" THEN 1 * UnitsPerHour ELSE 1]

resolution_hours(policy) ==
  IF policy = "business"
    THEN [p \in {"medium"} |-> 9 * UnitsPerHour]
    ELSE [p \in {"medium"} |-> 1]

get_first_response_hours(policy, priority) ==
  IF priority \in DOMAIN first_response_hours(policy)
    THEN first_response_hours(policy)[priority] ELSE NoTime

get_resolution_hours(policy, priority) ==
  IF priority \in DOMAIN resolution_hours(policy)
    THEN resolution_hours(policy)[priority] ELSE NoTime

(* ------------------------- activities, signals ------------------------- *)

Act(type, a, b) == <<type, a, b>>

Sig(name, a, b) == <<name, a, b>>

Res(t, acts, evts, ret) == [ticket |-> t, acts |-> acts, evts |-> evts, ret |-> ret]

NewTicket ==
  [status |-> "open", priority |-> "medium", requester |-> NoUser,
   assigned_to |-> NoUser, department |-> NoDept, sla_policy |-> NoPolicy,
   first_response_at |-> NoTime, first_response_due_at |-> NoTime,
   resolution_due_at |-> NoTime,
   sla_first_response_breached |-> FALSE, sla_resolution_breached |-> FALSE,
   resolved_at |-> NoTime, closed_at |-> NoTime, created_at |-> NoTime]

(* mutant: a resolved ticket still counts as open                          *)
is_open_NotClosed(t) == t.status # "closed"

is_open(t) == t.status \in OpenStatuses

(* ------------------------------ handlers ------------------------------- *)

on_status_changed(old_status, new_status) ==
  <<Act("status_changed", old_status, new_status)>>

on_ticket_assigned(agent) == <<Act("assigned", agent, "")>>

on_sla_breached(breach_type) == <<Act("sla_breached", breach_type, "")>>

on_ticket_escalated(reason) == <<Act("escalated", reason, "")>>

(* ------------------------------ SLA engine ----------------------------- *)

(* conf.py DEFAULTS["SLA"]["BUSINESS_HOURS"]: 09:00-17:00, Mon=1..Fri=5    *)
DefaultBusinessHours ==
  [START |-> 9 * UnitsPerHour, END |-> 17 * UnitsPerHour, DAYS |-> {1, 2, 3, 4, 5}]

(* The BUSINESS_HOURS settings a deployment is run with.                   *)
BusinessCalendars ==
  { DefaultBusinessHours,
    [START |-> 10 * UnitsPerHour, END |-> 16 * UnitsPerHour, DAYS |-> {1, 2, 3, 4, 5, 6}],
    [START |-> 9 * UnitsPerHour, END |-> 9 * UnitsPerHour, DAYS |-> {1, 2, 3, 4, 5}],
    [START |-> 17 * UnitsPerHour, END |-> 9 * UnitsPerHour, DAYS |-> {1, 2, 3, 4, 5}] }

(* datetime.isoweekday(): Mon=1 .. Sun=7                                   *)
isoweekday(dt) == ((dt \div UnitsPerDay) % 7) + 1

(* datetime.time(), as units since midnight                                *)
time_of_day(dt) == dt % UnitsPerDay

(* dt.replace(hour, minute, second=0, microsecond=0)                       *)
replace(dt, tod) == (dt \div UnitsPerDay) * UnitsPerDay + tod

(* mutant: the move to the next day keeps the time of day                 *)
NextDayStart_KeepsTime(dt, bh) == dt + UnitsPerDay

(* current += timedelta(days=1); current = current.replace(start_time)     *)
NextDayStart(dt, bh) == replace(dt + UnitsPerDay, bh.START)

(* mutant: a requirement that exactly fills the day is carried over        *)
BusinessStep_CarryAtEnd(cur, rem, bh) ==
  IF isoweekday(cur) \notin bh.DAYS
    THEN [current |-> NextDayStart(cur, bh), remaining |-> rem]
  ELSE
    LET cur1 == IF time_of_day(cur) < bh.START THEN replace(cur, bh.START) ELSE cur
    IN IF time_of_day(cur1) >= bh.END
         THEN [current |-> NextDayStart(cur1, bh), remaining |-> rem]
       ELSE
         LET available == replace(cur1, bh.END) - cur1
         IN IF rem < available
              THEN [current |-> cur1 + rem, remaining |-> 0]
              ELSE [current |-> NextDayStart(cur1, bh), remaining |-> rem - available]

(* mutant: an inactive weekday is not skipped                              *)
BusinessStep_NoWeekend(cur, rem, bh) ==
  LET cur1 == IF time_of_day(cur) < bh.START THEN replace(cur, bh.START) ELSE cur
  IN IF time_of_day(cur1) >= bh.END
       THEN [current |-> NextDayStart(cur1, bh), remaining |-> rem]
     ELSE
       LET available == replace(cur1, bh.END) - cur1
       IN IF rem <= available
            THEN [current |-> cur1 + rem, remaining |-> 0]
            ELSE [current |-> NextDayStart(cur1, bh), remaining |-> rem - available]

(* One pass through the body of the while loop of _add_business_hours.     *)
BusinessStep(cur, rem, bh) ==
  IF isoweekday(cur) \notin bh.DAYS
    THEN [current |-> NextDayStart(cur, bh), remaining |-> rem]
  ELSE
    LET cur1 == IF time_of_day(cur) < bh.START THEN replace(cur, bh.START) ELSE cur
    IN IF time_of_day(cur1) >= bh.END
         THEN [current |-> NextDayStart(cur1, bh), remaining |-> rem]
       ELSE
         LET available == replace(cur1, bh.END) - cur1
         IN IF rem <= available
              THEN [current |-> cur1 + rem, remaining |-> 0]
              ELSE [current |-> NextDayStart(cur1, bh), remaining |-> rem - available]

(* The last instant a datetime can hold (datetime.max), in units; adding   *)
(* a day beyond it raises OverflowError.                                   *)
MaxInstant == 1344

(* no instant is returned: OverflowError left the function                 *)
OverflowError == -2

(* while remaining_seconds > 0: ...; return current                        *)
RECURSIVE BusinessLoop(_, _, _)
BusinessLoop(cur, rem, bh) ==
  IF rem > 0
    THEN LET n == BusinessStep(cur, rem, bh)
         IN IF n.current > MaxInstant THEN OverflowError
            ELSE BusinessLoop(n.current, n.remaining, bh)
    ELSE cur

(* daily_business_seconds > 0                                              *)
HasBusinessWindow(bh) == bh.END - bh.START > 0

(* mutant: the fallback forgets to add the hours                           *)
_add_business_hours_FallbackDrops(start_dt, hours) ==
  IF ~HasBusinessWindow(settings) THEN start_dt
  ELSE BusinessLoop(start_dt, hours, settings)

_add_business_hours(start_dt, hours) ==
  IF ~HasBusinessWindow(settings) THEN start_dt + hours
  ELSE BusinessLoop(start_dt, hours, settings)

(* mutant: business hours are applied to every policy                      *)
DueAt_AlwaysBusiness(policy, clock, hours) == _add_business_hours(clock, hours)

(* "if policy.business_hours_only: ... else: now + timedelta(hours=...)"   *)
DueAt(policy, clock, hours) ==
  IF business_hours_only(policy) THEN _add_business_hours(clock, hours)
  ELSE clock + hours

apply_sla_deadlines(t, clock) ==
  IF t.sla_policy = NoPolicy THEN t
  ELSE
    LET frh == get_first_response_hours(t.sla_policy, t.priority)
        rh  == get_resolution_hours(t.sla_policy, t.priority)
    IN [t EXCEPT
          !.first_response_due_at =
             IF frh # NoTime THEN DueAt(t.sla_policy, clock, frh) ELSE @,
          !.resolution_due_at =
             IF rh # NoTime THEN DueAt(t.sla_policy, clock, rh) ELSE @]

(* mutant: the first-response test forgets "not already breached"         *)
FirstResponseOverdue_IgnoresFlag(t, clock) ==
  /\ t.first_response_due_at # NoTime
  /\ t.first_response_at = NoTime
  /\ clock > t.first_response_due_at

(* mutant: the first-response test forgets "no first response yet"        *)
FirstResponseOverdue_IgnoresResponse(t, clock) ==
  /\ t.first_response_due_at # NoTime
  /\ ~t.sla_first_response_breached
  /\ clock > t.first_response_due_at

FirstResponseOverdue(t, clock) ==
  /\ t.first_response_due_at # NoTime
  /\ t.first_response_at = NoTime
  /\ ~t.sla_first_response_breached
  /\ clock > t.first_response_due_at

(* mutant: the resolution test uses >= instead of >                       *)
ResolutionOverdue_AtDeadline(t, clock) ==
  /\ t.resolution_due_at # NoTime
  /\ t.resolved_at = NoTime
  /\ ~t.sla_resolution_breached
  /\ clock >= t.resolution_due_at

ResolutionOverdue(t, clock) ==
  /\ t.resolution_due_at # NoTime
  /\ t.resolved_at = NoTime
  /\ ~t.sla_resolution_breached
  /\ clock > t.resolution_due_at

(* mutant: the flags are assigned the test results instead of being set   *)
check_breach_Reassigns(t, clock) ==
  IF t.status \notin OpenStatuses THEN Res(t, <<>>, <<>>, FALSE)
  ELSE
    LET fr == /\ t.first_response_due_at # NoTime
              /\ t.first_response_at = NoTime
              /\ ~t.sla_first_response_breached
              /\ clock > t.first_response_due_at
        rs == /\ t.resolution_due_at # NoTime
              /\ t.resolved_at = NoTime
              /\ ~t.sla_resolution_breached
              /\ clock > t.resolution_due_at
        t1 == [t EXCEPT
                 !.sla_first_response_breached = fr,
                 !.sla_resolution_breached     = rs]
        evts == (IF fr THEN <<Sig("sla_breached", "first_response", "")>> ELSE <<>>)
                \o (IF rs THEN <<Sig("sla_breached", "resolution", "")>> ELSE <<>>)
        acts == (IF fr THEN on_sla_breached("first_response") ELSE <<>>)
                \o (IF rs THEN on_sla_breached("resolution") ELSE <<>>)
    IN Res(t1, acts, evts, fr \/ rs)

check_breach(t, clock) ==
  IF ~is_open(t) THEN Res(t, <<>>, <<>>, FALSE)
  ELSE
    LET fr == FirstResponseOverdue(t, clock)
        rs == ResolutionOverdue(t, clock)
        t1 == [t EXCEPT
                 !.sla_first_response_breached = IF fr THEN TRUE ELSE @,
                 !.sla_resolution_breached     = IF rs THEN TRUE ELSE @]
        evts == (IF fr THEN <<Sig("sla_breached", "first_response", "")>> ELSE <<>>)
                \o (IF rs THEN <<Sig("sla_breached", "resolution", "")>> ELSE <<>>)
        acts == (IF fr THEN on_sla_breached("first_response") ELSE <<>>)
                \o (IF rs THEN on_sla_breached("resolution") ELSE <<>>)
    IN Res(t1, acts, evts, fr \/ rs)

(* mutant: the first-response warning forgets "remaining > 0"              *)
FirstResponseWarning_IncludesOverdue(t, clock, threshold) ==
  /\ t.first_response_due_at # NoTime
  /\ t.first_response_at = NoTime
  /\ ~t.sla_first_response_breached
  /\ t.first_response_due_at - clock <= threshold

FirstResponseWarning(t, clock, threshold) ==
  /\ t.first_response_due_at # NoTime
  /\ t.first_response_at = NoTime
  /\ ~t.sla_first_response_breached
  /\ 0 < t.first_response_due_at - clock
  /\ t.first_response_due_at - clock <= threshold

ResolutionWarning(t, clock, threshold) ==
  /\ t.resolution_due_at # NoTime
  /\ t.resolved_at = NoTime
  /\ ~t.sla_resolution_breached
  /\ 0 < t.resolution_due_at - clock
  /\ t.resolution_due_at - clock <= threshold

check_warning(t, clock, threshold) ==
  IF ~is_open(t) THEN Res(t, <<>>, <<>>, FALSE)
  ELSE
    LET fr == FirstResponseWarning(t, clock, threshold)
        rs == ResolutionWarning(t, clock, threshold)
        evts == (IF fr THEN <<Sig("sla_warning", "first_response", "")>> ELSE <<>>)
                \o (IF rs THEN <<Sig("sla_warning", "resolution", "")>> ELSE <<>>)
    IN Res(t, <<>>, evts, fr \/ rs)

(* ---------------------------- state machine ---------------------------- *)

(* mutant: reopening keeps resolved_at                                     *)
lifecycle_timestamps_ReopenKeepsResolved(t, new_status, clock) ==
  IF new_status = "resolved" THEN [t EXCEPT !.resolved_at = clock]
  ELSE IF new_status = "closed" THEN [t EXCEPT !.closed_at = clock]
  ELSE IF new_status = "reopened" THEN [t EXCEPT !.closed_at = NoTime]
  ELSE t

(* mutant: closing a ticket also stamps resolved_at                        *)
lifecycle_timestamps_CloseResolves(t, new_status, clock) ==
  IF new_status = "resolved" THEN [t EXCEPT !.resolved_at = clock]
  ELSE IF new_status = "closed"
    THEN [t EXCEPT !.closed_at = clock, !.resolved_at = clock]
  ELSE IF new_status = "reopened"
    THEN [t EXCEPT !.resolved_at = NoTime, !.closed_at = NoTime]
  ELSE t

(* mutant: reopening re-arms the SLA by clearing the breach flags          *)
lifecycle_timestamps_Rearm(t, new_status, clock) ==
  IF new_status = "resolved" THEN [t EXCEPT !.resolved_at = clock]
  ELSE IF new_status = "closed" THEN [t EXCEPT !.closed_at = clock]
  ELSE IF new_status = "reopened"
    THEN [t EXCEPT !.resolved_at = NoTime, !.closed_at = NoTime,
                   !.sla_first_response_breached = FALSE,
                   !.sla_resolution_breached = FALSE]
  ELSE t

(* "Set lifecycle timestamps" of transition_status                          *)
lifecycle_timestamps(t, new_status, clock) ==
  IF new_status = "resolved" THEN [t EXCEPT !.resolved_at = clock]
  ELSE IF new_status = "closed" THEN [t EXCEPT !.closed_at = clock]
  ELSE IF new_status = "reopened"
    THEN [t EXCEPT !.resolved_at = NoTime, !.closed_at = NoTime]
  ELSE t

(* mutant: a closed ticket can only be reopened                            *)
transition_status_ClosedIsFinal(t, new_status, clock) ==
  IF t.status = new_status \/ (t.status = "closed" /\ new_status # "reopened")
    THEN Res(t, <<>>, <<>>, FALSE)
  ELSE
    LET old_status == t.status
        t1 == lifecycle_timestamps([t EXCEPT !.status = new_status], new_status, clock)
        specific ==
          IF new_status = "resolved" THEN <<Sig("ticket_resolved", "", "")>>
          ELSE IF new_status = "closed" THEN <<Sig("ticket_closed", "", "")>>
          ELSE IF new_status = "reopened" THEN <<Sig("ticket_reopened", "", "")>>
          ELSE IF new_status = "escalated"
            THEN <<Sig("ticket_escalated", "Manual escalation", "")>>
          ELSE <<>>
        acts == <<Act("status_changed", old_status, new_status)>>
                \o on_status_changed(old_status, new_status)
                \o (IF new_status = "escalated"
                      THEN on_ticket_escalated("Manual escalation") ELSE <<>>)
        evts == <<Sig("ticket_status_changed", old_status, new_status)>> \o specific
    IN Res(t1, acts, evts, TRUE)

transition_status(t, new_status, clock) ==
  IF t.status = new_status THEN Res(t, <<>>, <<>>, FALSE)
  ELSE
    LET old_status == t.status
        t1 == lifecycle_timestamps([t EXCEPT !.status = new_status], new_status, clock)
        specific ==
          IF new_status = "resolved" THEN <<Sig("ticket_resolved", "", "")>>
          ELSE IF new_status = "closed" THEN <<Sig("ticket_closed", "", "")>>
          ELSE IF new_status = "reopened" THEN <<Sig("ticket_reopened", "", "")>>
          ELSE IF new_status = "escalated"
            THEN <<Sig("ticket_escalated", "Manual escalation", "")>>
          ELSE <<>>
        acts == <<Act("status_changed", old_status, new_status)>>
                \o on_status_changed(old_status, new_status)
                \o (IF new_status = "escalated"
                      THEN on_ticket_escalated("Manual escalation") ELSE <<>>)
        evts == <<Sig("ticket_status_changed", old_status, new_status)>> \o specific
    IN Res(t1, acts, evts, TRUE)

(* mutant: assigning also moves a reopened ticket to in_progress           *)
assign_ticket_BumpsReopened(t, agent) ==
  LET t1 == [t EXCEPT
               !.assigned_to = agent,
               !.status = IF t.status \in {"open", "reopened"} THEN "in_progress" ELSE @]
  IN Res(t1,
         <<Act("assigned", agent, "")>> \o on_ticket_assigned(agent),
         <<Sig("ticket_assigned", agent, "")>>,
         TRUE)

assign_ticket(t, agent) ==
  LET t1 == [t EXCEPT
               !.assigned_to = agent,
               !.status = IF t.status = "open" THEN "in_progress" ELSE @]
  IN Res(t1,
         <<Act("assigned", agent, "")>> \o on_ticket_assigned(agent),
         <<Sig("ticket_assigned", agent, "")>>,
         TRUE)

unassign_ticket(t) ==
  Res([t EXCEPT !.assigned_to = NoUser],
      <<Act("unassigned", t.assigned_to, "")>>,
      <<Sig("ticket_unassigned", t.assigned_to, "")>>,
      TRUE)

(* mutant: every reply of the assigned agent stamps first_response_at     *)
IsFirstAgentReply_Overwrites(t, user) ==
  /\ t.assigned_to # NoUser
  /\ user = t.assigned_to

(* "Record first response if this is the first agent reply"               *)
IsFirstAgentReply(t, user) ==
  /\ t.first_response_at = NoTime
  /\ t.assigned_to # NoUser
  /\ user = t.assigned_to

on_reply_created(t, user, clock) ==
  LET first == IsFirstAgentReply(t, user)
      t1 == IF first THEN [t EXCEPT !.first_response_at = clock] ELSE t
  IN Res(t1, <<Act("reply_added", user, "")>>, <<>>, first)

(* mutant: a staff reply also moves an in-progress ticket                  *)
StaffReplyStatuses_WithInProgress ==
  {"open", "in_progress", "waiting_on_agent", "reopened"}

(* mutant: notes update the status like replies                            *)
ReplyUpdatesStatus_Always(is_internal) == TRUE

(* The statuses from which a staff reply moves the ticket                  *)
StaffReplyStatuses == {"open", "waiting_on_agent", "reopened"}

(* "if not is_internal": only replies, not notes, update the status        *)
ReplyUpdatesStatus(is_internal) == ~is_internal

add_reply(t, user, is_internal, clock) ==
  LET nothing == Res(t, <<>>, <<>>, FALSE)
      is_requester == t.requester # NoUser /\ t.requester = user
      tr == IF ReplyUpdatesStatus(is_internal) /\ user # NoUser
              THEN IF is_requester
                     THEN IF t.status = "waiting_on_customer"
                            THEN transition_status(t, "waiting_on_agent", clock)
                            ELSE nothing
                     ELSE IF t.status \in StaffReplyStatuses
                            THEN transition_status(t, "waiting_on_customer", clock)
                            ELSE nothing
            ELSE IF ReplyUpdatesStatus(is_internal) /\ user = NoUser
              THEN IF t.status = "waiting_on_customer"
                     THEN transition_status(t, "open", clock)
                     ELSE nothing
            ELSE nothing
      h == on_reply_created(tr.ticket, user, clock)
  IN IF is_internal
       THEN Res(tr.ticket, tr.acts,
                tr.evts \o <<Sig("internal_note_added", user, "")>>, TRUE)
       ELSE Res(h.ticket, tr.acts \o h.acts,
                tr.evts \o <<Sig("reply_created", user, "")>>, TRUE)

change_department(t, department) ==
  Res([t EXCEPT !.department = department],
      <<Act("department_changed", t.department, department)>>,
      <<Sig("department_changed", t.department, department)>>,
      TRUE)

(* mutant: a priority change derives the due dates again                   *)
change_priority_Rederives(t, new_priority) ==
  IF t.priority = new_priority THEN Res(t, <<>>, <<>>, FALSE)
  ELSE Res(apply_sla_deadlines([t EXCEPT !.priority = new_priority], t.created_at),
           <<Act("priority_changed", t.priority, new_priority)>>,
           <<Sig("ticket_priority_changed", t.priority, new_priority)>>,
           TRUE)

(* mutant: no early return when the priority is unchanged                  *)
change_priority_AlwaysLogs(t, new_priority) ==
  Res([t EXCEPT !.priority = new_priority],
      <<Act("priority_changed", t.priority, new_priority)>>,
      <<Sig("ticket_priority_changed", t.priority, new_priority)>>,
      TRUE)

change_priority(t, new_priority) ==
  IF t.priority = new_priority THEN Res(t, <<>>, <<>>, FALSE)
  ELSE Res([t EXCEPT !.priority = new_priority],
           <<Act("priority_changed", t.priority, new_priority)>>,
           <<Sig("ticket_priority_changed", t.priority, new_priority)>>,
           TRUE)

(* mutant: the lookup of the default policy forgets is_active=True        *)
DefaultPolicies_IncludesInactive(table) ==
  LET found == {table[i].name : i \in {j \in PolicyIds : table[j].is_default}}
  IN IF found = {} THEN {NoPolicy} ELSE found

(* SlaPolicy.objects.filter(is_default=True, is_active=True).first(): the  *)
(* rows it can return, NoPolicy when there is none.                        *)
DefaultPolicies(table) ==
  LET found == {table[i].name :
                  i \in {j \in PolicyIds : table[j].is_default /\ table[j].is_active}}
  IN IF found = {} THEN {NoPolicy} ELSE found

on_ticket_created(t, default_policy, clock) ==
  LET t1 == IF t.sla_policy = NoPolicy /\ default_policy # NoPolicy
              THEN apply_sla_deadlines([t EXCEPT !.sla_policy = default_policy], clock)
              ELSE t
  IN Res(t1, <<Act("created", t.priority, "")>>, <<>>, TRUE)

create_ticket(user, priority, department, default_policy, clock) ==
  LET t == [NewTicket EXCEPT !.requester = user, !.priority = priority,
                             !.department = department, !.created_at = clock]
      h == on_ticket_created(t, default_policy, clock)
  IN Res(h.ticket,
         <<Act("created", priority, "")>> \o h.acts,
         <<Sig("ticket_created", user, "")>>,
         TRUE)

(* --------------------------- escalation rules -------------------------- *)

(* A condition value that is a single string or a list of strings.         *)
Str(v) == [is_str |-> TRUE, values |-> {v}]

List(vs) == [is_str |-> FALSE, values |-> vs]

EmptyMap == [k \in {} |-> TRUE]

(* The rows of the escalation_rules table.  Hours are written in units.    *)
EscalationRules ==
  { [name |-> "breach_escalate", trigger_type |-> "sla_breach",
     conditions |-> EmptyMap,
     actions |-> [escalate |-> TRUE],
     order |-> 1, is_active |-> TRUE],
    [name |-> "stale_bump", trigger_type |-> "time_based",
     conditions |-> [hours_since_creation |-> 1 * UnitsPerHour,
                     status |-> List({"open", "escalated"})],
     actions |-> [set_priority |-> "medium", assign_to_id |-> "agent1"],
     order |-> 2, is_active |-> TRUE],
    [name |-> "disabled", trigger_type |-> "customer_reply",
     conditions |-> EmptyMap,
     actions |-> [escalate |-> TRUE, department_id |-> "dept9",
                  set_priority |-> "critical"],
     order |-> 0, is_active |-> FALSE] }

(* Other contents of the escalation_rules table.                           *)
(* Two rules that always match and both set the priority.                  *)
PriorityRules ==
  { [name |-> "z_first", trigger_type |-> "customer_reply",
     conditions |-> EmptyMap,
     actions |-> [set_priority |-> "urgent"],
     order |-> 3, is_active |-> TRUE],
    [name |-> "a_last", trigger_type |-> "customer_reply",
     conditions |-> EmptyMap,
     actions |-> [set_priority |-> "high"],
     order |-> 5, is_active |-> TRUE] }

(* A rule that escalates, then rules conditioned on the status.            *)
ChainRules ==
  { [name |-> "esc", trigger_type |-> "sla_breach",
     conditions |-> EmptyMap,
     actions |-> [escalate |-> TRUE],
     order |-> 1, is_active |-> TRUE],
    [name |-> "open_only", trigger_type |-> "customer_reply",
     conditions |-> [status |-> Str("open")],
     actions |-> [set_priority |-> "high"],
     order |-> 2, is_active |-> TRUE],
    [name |-> "when_escalated", trigger_type |-> "customer_reply",
     conditions |-> [status |-> List({"escalated"})],
     actions |-> [assign_to_id |-> "agent1"],
     order |-> 3, is_active |-> TRUE] }

(* Only inactive rules.                                                    *)
InactiveRules ==
  { [name |-> "off_breach", trigger_type |-> "sla_breach",
     conditions |-> EmptyMap,
     actions |-> [escalate |-> TRUE],
     order |-> 1, is_active |-> FALSE],
    [name |-> "off_any", trigger_type |-> "customer_reply",
     conditions |-> EmptyMap,
     actions |-> [set_priority |-> "critical", assign_to_id |-> "agent1"],
     order |-> 2, is_active |-> FALSE] }

(* Rules with several actions.                                             *)
MultiActionRules ==
  { [name |-> "all_in", trigger_type |-> "sla_breach",
     conditions |-> EmptyMap,
     actions |-> [set_priority |-> "urgent", escalate |-> TRUE,
                  assign_to_id |-> "agent1"],
     order |-> 1, is_active |-> TRUE],
    [name |-> "quiet", trigger_type |-> "priority_change",
     conditions |-> [priority |-> Str("low")],
     actions |-> [set_priority |-> "medium", assign_to_id |-> "agent1"],
     order |-> 2, is_active |-> TRUE] }

(* Rules whose actions name user and department ids that have no row.      *)
DanglingRules ==
  { [name |-> "ghost", trigger_type |-> "customer_reply", conditions |-> EmptyMap,
     actions |-> [set_priority |-> "high", assign_to_id |-> "agent9",
                  department_id |-> "dept9"],
     order |-> 1, is_active |-> TRUE],
    [name |-> "after", trigger_type |-> "customer_reply", conditions |-> EmptyMap,
     actions |-> [escalate |-> TRUE],
     order |-> 2, is_active |-> TRUE],
    [name |-> "nobody", trigger_type |-> "customer_reply", conditions |-> EmptyMap,
     actions |-> [assign_to_id |-> "agent9"],
     order |-> 3, is_active |-> TRUE] }

RuleTables ==
  {EscalationRules, PriorityRules, ChainRules, InactiveRules, MultiActionRules,
   DanglingRules}

DEFAULT_NO_RESPONSE_HOURS == 24 * UnitsPerHour

DEFAULT_HOURS_SINCE_CREATION == 48 * UnitsPerHour

Get(map, key, default) == IF key \in DOMAIN map THEN map[key] ELSE default

(* mutant: the priority_change trigger checks nothing                      *)
_trigger_holds_NoPriorityCheck(t, rule, clock) ==
  IF rule.trigger_type = "sla_breach"
    THEN t.sla_first_response_breached \/ t.sla_resolution_breached
  ELSE IF rule.trigger_type = "no_response"
    THEN /\ ~(t.created_at >
                clock - Get(rule.conditions, "no_response_hours", DEFAULT_NO_RESPONSE_HOURS))
         /\ t.first_response_at = NoTime
  ELSE IF rule.trigger_type = "time_based"
    THEN ~(t.created_at >
             clock - Get(rule.conditions, "hours_since_creation", DEFAULT_HOURS_SINCE_CREATION))
  ELSE TRUE

(* "Check trigger type first"                                              *)
_trigger_holds(t, rule, clock) ==
  LET conditions == rule.conditions
  IN IF rule.trigger_type = "sla_breach"
       THEN t.sla_first_response_breached \/ t.sla_resolution_breached
     ELSE IF rule.trigger_type = "no_response"
       THEN /\ ~(t.created_at >
                   clock - Get(conditions, "no_response_hours", DEFAULT_NO_RESPONSE_HOURS))
            /\ t.first_response_at = NoTime
     ELSE IF rule.trigger_type = "time_based"
       THEN ~(t.created_at >
                clock - Get(conditions, "hours_since_creation", DEFAULT_HOURS_SINCE_CREATION))
     ELSE IF rule.trigger_type = "priority_change"
       THEN \/ "priority" \notin DOMAIN conditions
            \/ /\ conditions["priority"].is_str
               /\ conditions["priority"].values = {t.priority}
     ELSE TRUE

(* A condition value that is a number: `x not in 5` raises TypeError.      *)
Number(n) == [is_str |-> FALSE, values |-> {}, number |-> n]

IsIterable(v) == "number" \notin DOMAIN v

(* no count is returned: the exception left the function                   *)
Raised == -1

(* Whether _matches_conditions raises instead of returning.                *)
MatchRaises(t, rule, clock) ==
  /\ _trigger_holds(t, rule, clock)
  /\ "status" \in DOMAIN rule.conditions
  /\ ~IsIterable(rule.conditions["status"])

(* mutant: unassigned_only restricts whenever the key is present           *)
_matches_conditions_UnassignedKey(t, rule, clock) ==
  LET conditions == rule.conditions
  IN /\ _trigger_holds(t, rule, clock)
     /\ "status" \in DOMAIN conditions => t.status \in conditions["status"].values
     /\ "priority" \in DOMAIN conditions => t.priority \in conditions["priority"].values
     /\ "department_id" \in DOMAIN conditions => t.department = conditions["department_id"]
     /\ "unassigned_only" \in DOMAIN conditions => t.assigned_to = NoUser

_matches_conditions(t, rule, clock) ==
  LET conditions == rule.conditions
  IN /\ _trigger_holds(t, rule, clock)
     /\ "status" \in DOMAIN conditions => t.status \in conditions["status"].values
     /\ "priority" \in DOMAIN conditions => t.priority \in conditions["priority"].values
     /\ "department_id" \in DOMAIN conditions => t.department = conditions["department_id"]
     /\ ("unassigned_only" \in DOMAIN conditions /\ conditions["unassigned_only"])
          => t.assigned_to = NoUser

(* mutant: set_priority acts also when the priority already has the value *)
_execute_actions_AlwaysActs(t, rule) ==
  LET actions == rule.actions
      set_prio == "set_priority" \in DOMAIN actions
      escalate == Get(actions, "escalate", FALSE) /\ t.status # "escalated"
      assign == /\ "assign_to_id" \in DOMAIN actions
                /\ actions["assign_to_id"] \in Users
                /\ t.assigned_to # actions["assign_to_id"]
      dept == /\ "department_id" \in DOMAIN actions
              /\ actions["department_id"] \in Departments
              /\ t.department # actions["department_id"]
      acted == set_prio \/ escalate \/ assign \/ dept
      reason == "Escalation rule: " \o rule.name
      t1 == [t EXCEPT
               !.priority = IF set_prio THEN actions["set_priority"] ELSE @,
               !.status = IF escalate THEN "escalated" ELSE @,
               !.assigned_to = IF assign THEN actions["assign_to_id"] ELSE @,
               !.department = IF dept THEN actions["department_id"] ELSE @]
  IN Res(t1,
         (IF escalate THEN on_ticket_escalated(reason) ELSE <<>>)
           \o (IF acted THEN <<Act("escalated", rule.name, "rule")>> ELSE <<>>),
         IF escalate THEN <<Sig("ticket_escalated", reason, "")>> ELSE <<>>,
         acted)

(* mutant: a missing user or department row ends the rule                 *)
_execute_actions_AbortsOnMissing(t, rule) ==
  LET actions == rule.actions
      missing == \/ /\ "assign_to_id" \in DOMAIN actions
                     /\ actions["assign_to_id"] \notin Users
                 \/ /\ "department_id" \in DOMAIN actions
                     /\ actions["department_id"] \notin Departments
      set_prio == "set_priority" \in DOMAIN actions /\ t.priority # actions["set_priority"]
      escalate == Get(actions, "escalate", FALSE) /\ t.status # "escalated"
      assign == /\ "assign_to_id" \in DOMAIN actions
                /\ t.assigned_to # actions["assign_to_id"]
      dept == /\ "department_id" \in DOMAIN actions
              /\ t.department # actions["department_id"]
      acted == set_prio \/ escalate \/ assign \/ dept
      reason == "Escalation rule: " \o rule.name
      t1 == [t EXCEPT
               !.priority = IF set_prio THEN actions["set_priority"] ELSE @,
               !.status = IF escalate THEN "escalated" ELSE @,
               !.assigned_to = IF assign THEN actions["assign_to_id"] ELSE @,
               !.department = IF dept THEN actions["department_id"] ELSE @]
  IN IF missing THEN Res(t, <<>>, <<>>, FALSE)
     ELSE Res(t1,
              (IF escalate THEN on_ticket_escalated(reason) ELSE <<>>)
                \o (IF acted THEN <<Act("escalated", rule.name, "rule")>> ELSE <<>>),
              IF escalate THEN <<Sig("ticket_escalated", reason, "")>> ELSE <<>>,
              acted)

_execute_actions(t, rule) ==
  LET actions == rule.actions
      set_prio == "set_priority" \in DOMAIN actions /\ t.priority # actions["set_priority"]
      escalate == Get(actions, "escalate", FALSE) /\ t.status # "escalated"
      assign == /\ "assign_to_id" \in DOMAIN actions
                /\ actions["assign_to_id"] \in Users
                /\ t.assigned_to # actions["assign_to_id"]
      dept == /\ "department_id" \in DOMAIN actions
              /\ actions["department_id"] \in Departments
              /\ t.department # actions["department_id"]
      acted == set_prio \/ escalate \/ assign \/ dept
      reason == "Escalation rule: " \o rule.name
      t1 == [t EXCEPT
               !.priority = IF set_prio THEN actions["set_priority"] ELSE @,
               !.status = IF escalate THEN "escalated" ELSE @,
               !.assigned_to = IF assign THEN actions["assign_to_id"] ELSE @,
               !.department = IF dept THEN actions["department_id"] ELSE @]
  IN Res(t1,
         (IF escalate THEN on_ticket_escalated(reason) ELSE <<>>)
           \o (IF acted THEN <<Act("escalated", rule.name, "rule")>> ELSE <<>>),
         IF escalate THEN <<Sig("ticket_escalated", reason, "")>> ELSE <<>>,
         acted)

(* mutant: order_by("-order")                                              *)
OrderBy_Descending(table) ==
  {seq \in [1..Cardinality(table) -> table] :
     /\ \A i, j \in DOMAIN seq : i # j => seq[i] # seq[j]
     /\ \A i, j \in DOMAIN seq : i < j => seq[i].order >= seq[j].order}

(* .order_by("order"): the sequences in which the database can return the  *)
(* rows; rows of equal order come in any sequence.                         *)
OrderBy(table) ==
  {seq \in [1..Cardinality(table) -> table] :
     /\ \A i, j \in DOMAIN seq : i # j => seq[i] # seq[j]
     /\ \A i, j \in DOMAIN seq : i < j => seq[i].order <= seq[j].order}

(* mutant: the is_active filter is missing                                 *)
ActiveRules_IncludesInactive == OrderBy(rules)

(* EscalationRule.objects.filter(is_active=True).order_by("order")         *)
ActiveRules == OrderBy({r \in rules : r.is_active})

(* mutant: every rule is matched against the ticket as it was read        *)
RECURSIVE EvaluateFrom_Snapshot(_, _, _)
EvaluateFrom_Snapshot(r, i, clock) ==
  IF i > Len(r.rules) THEN r
  ELSE
    LET rule == r.rules[i]
    IN IF MatchRaises(r.ticket, rule, clock) THEN [r EXCEPT !.cnt = Raised]
       ELSE
         LET e == IF _matches_conditions(ticket, rule, clock)
                    THEN _execute_actions(r.ticket, rule)
                    ELSE Res(r.ticket, <<>>, <<>>, FALSE)
         IN EvaluateFrom_Snapshot([ticket |-> e.ticket, acts |-> r.acts \o e.acts,
                                   evts |-> r.evts \o e.evts, ret |-> r.ret \/ e.ret,
                                   cnt |-> r.cnt + (IF e.ret THEN 1 ELSE 0),
                                   rules |-> r.rules],
                                  i + 1, clock)

(* The loop "for rule in rules" from rules[i] on; cnt is actions_taken.    *)
(* An exception in _matches_conditions leaves the loop and the function:   *)
(* what was saved before stays saved and no count is returned.             *)
RECURSIVE EvaluateFrom(_, _, _)
EvaluateFrom(r, i, clock) ==
  IF i > Len(r.rules) THEN r
  ELSE
    LET rule == r.rules[i]
    IN IF MatchRaises(r.ticket, rule, clock) THEN [r EXCEPT !.cnt = Raised]
       ELSE
         LET e == IF _matches_conditions(r.ticket, rule, clock)
                    THEN _execute_actions(r.ticket, rule)
                    ELSE Res(r.ticket, <<>>, <<>>, FALSE)
         IN EvaluateFrom([ticket |-> e.ticket, acts |-> r.acts \o e.acts,
                          evts |-> r.evts \o e.evts, ret |-> r.ret \/ e.ret,
                          cnt |-> r.cnt + (IF e.ret THEN 1 ELSE 0),
                          rules |-> r.rules],
                         i + 1, clock)

(* The possible results of evaluate_ticket, one per sequence the query for *)
(* the active rules can return.                                            *)
evaluate_ticket(t, clock) ==
  { EvaluateFrom([ticket |-> t, acts |-> <<>>, evts |-> <<>>, ret |-> FALSE,
                  cnt |-> 0, rules |-> seq], 1, clock) : seq \in ActiveRules }

evaluate_all(t, clock) ==
  IF is_open(t) THEN evaluate_ticket(t, clock)
  ELSE {[ticket |-> t, acts |-> <<>>, evts |-> <<>>, ret |-> FALSE, cnt |-> 0,
         rules |-> <<>>]}

(* check_all_tickets on the one ticket: open tickets with a policy         *)
check_all_tickets(t, clock) ==
  IF is_open(t) /\ t.sla_policy # NoPolicy
    THEN LET b == check_breach(t, clock)
             w == check_warning(b.ticket, clock, DEFAULT_WARNING_THRESHOLD)
         IN [ticket |-> w.ticket, acts |-> b.acts \o w.acts,
             evts |-> b.evts \o w.evts, ret |-> b.ret \/ w.ret,
             cnt |-> <<IF b.ret THEN 1 ELSE 0, IF w.ret THEN 1 ELSE 0>>]
    ELSE [ticket |-> t, acts |-> <<>>, evts |-> <<>>, ret |-> FALSE, cnt |-> <<0, 0>>]

(* The check_sla command: the --warning-threshold option is parsed into    *)
(* options and handle() calls check_all_tickets() without it.              *)
check_sla(warning_threshold, t, clock) == check_all_tickets(t, clock)

(* ------------------------------- actions ------------------------------- *)

(* No sweep is running.                                                    *)
NoRuns == <<>>

Idle == [op |-> "init", arg |-> "", internal |-> FALSE, ret |-> FALSE,
         cnt |-> <<0, 0>>, acts |-> <<>>, evts |-> <<>>, prior |-> "none"]

Commit(op, arg, internal, r, cnt) ==
  /\ ticket' = r.ticket
  /\ out' = [op |-> op, arg |-> arg, internal |-> internal, ret |-> r.ret,
             cnt |-> cnt, acts |-> r.acts, evts |-> r.evts,
             prior |-> IF op \in {"check_breach", "check_warning"} /\ out.op = op
                         THEN (IF out.ret THEN "true" ELSE "false")
                       ELSE IF /\ op \in {"check_breach", "check_all_tickets"}
                               /\ out.op = "transition_status"
                               /\ out.arg = "reopened"
                               /\ out.ret
                         THEN "reopened"
                         ELSE "none"]
  /\ UNCHANGED <<now, settings, rules, policies, runs>>

Init ==
  /\ created = FALSE
  /\ ticket = NewTicket
  /\ now = 0
  /\ out = Idle
  /\ settings = DefaultBusinessHours
  /\ rules = EscalationRules
  /\ policies \in {SeededPolicies(TRUE), SeededPolicies(FALSE)}
  /\ runs = NoRuns

Tick ==
  /\ created
  /\ now < MaxTime
  /\ now' = now + 1
  /\ out' = [Idle EXCEPT !.op = "tick"]
  /\ UNCHANGED <<created, ticket, settings, rules, policies, runs>>

CreateTicket ==
  /\ ~created
  /\ created' = TRUE
  /\ \E priority \in PriorityInputs,
        default_policy \in DefaultPolicies(policies) :
       Commit("create_ticket", priority, FALSE,
              create_ticket("customer", priority, "dept1", default_policy, now), <<0, 0>>)

TransitionStatus ==
  /\ created
  /\ \E new_status \in Status :
       Commit("transition_status", new_status, FALSE,
              transition_status(ticket, new_status, now), <<0, 0>>)
  /\ UNCHANGED created

AssignTicket ==
  /\ created
  /\ \E agent \in Agents :
       Commit("assign_ticket", agent, FALSE, assign_ticket(ticket, agent), <<0, 0>>)
  /\ UNCHANGED created

UnassignTicket ==
  /\ created
  /\ Commit("unassign_ticket", "", FALSE, unassign_ticket(ticket), <<0, 0>>)
  /\ UNCHANGED created

AddReply ==
  /\ created
  /\ \E user \in Users \cup {NoUser}, is_internal \in BOOLEAN :
       Commit("add_reply", user, is_internal,
              add_reply(ticket, user, is_internal, now), <<0, 0>>)
  /\ UNCHANGED created

ChangeDepartment ==
  /\ created
  /\ \E department \in Departments :
       Commit("change_department", department, FALSE,
              change_department(ticket, department), <<0, 0>>)
  /\ UNCHANGED created

ChangePriority ==
  /\ created
  /\ \E new_priority \in PriorityInputs :
       Commit("change_priority", new_priority, FALSE,
              change_priority(ticket, new_priority), <<0, 0>>)
  /\ UNCHANGED created

CheckBreach ==
  /\ created
  /\ Commit("check_breach", "", FALSE, check_breach(ticket, now), <<0, 0>>)
  /\ UNCHANGED created

CheckWarning ==
  /\ created
  /\ \E threshold \in WarningThresholds :
       Commit("check_warning", "", FALSE, check_warning(ticket, now, threshold),
              <<threshold, 0>>)
  /\ UNCHANGED created

CheckAllTickets ==
  /\ created
  /\ \E warning_threshold \in WarningThresholds :
       LET r == check_sla(warning_threshold, ticket, now)
       IN Commit("check_all_tickets", warning_threshold, FALSE, r, r.cnt)
  /\ UNCHANGED created

EvaluateTicket ==
  /\ created
  /\ \E r \in evaluate_ticket(ticket, now) :
       Commit("evaluate_ticket", "", FALSE, r, <<r.cnt, 0>>)
  /\ UNCHANGED created

EvaluateAll ==
  /\ created
  /\ \E r \in evaluate_all(ticket, now) :
       Commit("evaluate_all", "", FALSE, r, <<r.cnt, 0>>)
  /\ UNCHANGED created

Next ==
  \/ Tick
  \/ CreateTicket
  \/ TransitionStatus
  \/ AssignTicket
  \/ UnassignTicket
  \/ AddReply
  \/ ChangeDepartment
  \/ ChangePriority
  \/ CheckBreach
  \/ CheckWarning
  \/ CheckAllTickets
  \/ EvaluateTicket
  \/ EvaluateAll

Spec == Init /\ [][Next]_vars

(* --------------- the escalation engine on its own inputs --------------- *)

(* Tickets as the escalation engine finds them, created at instant 0.      *)
EscTicketInputs ==
  { [NewTicket EXCEPT !.requester = "customer", !.department = "dept1",
                      !.created_at = 0, !.status = st, !.priority = p,
                      !.assigned_to = a, !.sla_first_response_breached = b] :
      st \in Status, p \in PriorityInputs, a \in {NoUser} \cup Agents, b \in BOOLEAN }

InitEsc ==
  /\ created = TRUE
  /\ ticket \in EscTicketInputs
  /\ now = 0
  /\ out = Idle
  /\ settings = DefaultBusinessHours
  /\ rules \in RuleTables
  /\ policies = SeededPolicies(TRUE)
  /\ runs = NoRuns

NextEsc ==
  \/ Tick
  \/ EvaluateTicket
  \/ EvaluateAll

SpecEsc == InitEsc /\ [][NextEsc]_vars

(* ---- Two check_all_tickets calls running at the same time -------------- *)

Runs == {"run1", "run2"}

(* A call before its query: nothing read, nothing counted, nothing sent.   *)
NewRun == [pc |-> "start", local |-> NewTicket, breached_count |-> 0,
           warned_count |-> 0, acts |-> <<>>, evts |-> <<>>]

(* The query is evaluated when the loop starts: the call holds its own     *)
(* copy of each open ticket that has a policy.                             *)
SweepQuery(p) ==
  /\ runs[p].pc = "start"
  /\ runs' = [runs EXCEPT
                ![p].pc = IF is_open(ticket) /\ ticket.sla_policy # NoPolicy
                            THEN "loaded" ELSE "done",
                ![p].local = IF is_open(ticket) /\ ticket.sla_policy # NoPolicy
                               THEN ticket ELSE @]
  /\ UNCHANGED <<created, ticket, now, out, settings, rules, policies>>

(* check_breach on the call's copy; save(update_fields=...) writes the two *)
(* flags of the copy to the row when a breach was found.                   *)
SweepCheckBreach(p) ==
  /\ runs[p].pc = "loaded"
  /\ LET r == check_breach(runs[p].local, now)
     IN /\ ticket' = IF r.ret
                       THEN [ticket EXCEPT
                               !.sla_first_response_breached =
                                  r.ticket.sla_first_response_breached,
                               !.sla_resolution_breached =
                                  r.ticket.sla_resolution_breached]
                       ELSE ticket
        /\ runs' = [runs EXCEPT
                      ![p].pc = "checked",
                      ![p].local = r.ticket,
                      ![p].breached_count = @ + (IF r.ret THEN 1 ELSE 0),
                      ![p].acts = @ \o r.acts,
                      ![p].evts = @ \o r.evts]
  /\ UNCHANGED <<created, now, out, settings, rules, policies>>

SweepCheckWarning(p) ==
  /\ runs[p].pc = "checked"
  /\ LET w == check_warning(runs[p].local, now, DEFAULT_WARNING_THRESHOLD)
     IN runs' = [runs EXCEPT
                   ![p].pc = "done",
                   ![p].warned_count = @ + (IF w.ret THEN 1 ELSE 0),
                   ![p].evts = @ \o w.evts]
  /\ UNCHANGED <<created, ticket, now, out, settings, rules, policies>>

SweepTicketInputs ==
  { [NewTicket EXCEPT !.requester = "customer", !.department = "dept1",
                      !.created_at = 0, !.sla_policy = "default", !.status = st,
                      !.first_response_due_at = fr, !.resolution_due_at = rs] :
      st \in {"open", "resolved"}, fr \in {NoTime, 1}, rs \in {NoTime, 1, 2} }

InitSweep ==
  /\ created = TRUE
  /\ ticket \in SweepTicketInputs
  /\ now = 0
  /\ out = Idle
  /\ settings = DefaultBusinessHours
  /\ rules = EscalationRules
  /\ policies = SeededPolicies(TRUE)
  /\ runs = [p \in Runs |-> NewRun]

NextSweep ==
  \/ Tick
  \/ \E p \in Runs : SweepQuery(p)
  \/ \E p \in Runs : SweepCheckBreach(p)
  \/ \E p \in Runs : SweepCheckWarning(p)

SpecSweep == InitSweep /\ [][NextSweep]_vars

(* ---- A request handler running at the same time as a sweep ------------- *)

(* The view loads the ticket (get_object_or_404) and passes its instance   *)
(* to the driver; the sweep is the call "run1".                            *)
Request == "request"

RequestRead ==
  /\ runs[Request].pc = "start"
  /\ runs' = [runs EXCEPT ![Request].pc = "loaded", ![Request].local = ticket]
  /\ out' = [Idle EXCEPT !.op = "read"]
  /\ UNCHANGED <<created, ticket, now, settings, rules, policies>>

(* The operation runs on the handler's instance; ticket.save() without     *)
(* update_fields writes every column of the instance to the row.           *)
RequestSave(op, arg, r) ==
  /\ ticket' = IF r.ret THEN r.ticket ELSE ticket
  /\ runs' = [runs EXCEPT ![Request].pc = "done", ![Request].local = r.ticket,
                          ![Request].acts = r.acts, ![Request].evts = r.evts]
  /\ out' = [Idle EXCEPT !.op = op, !.arg = arg, !.ret = r.ret,
                         !.acts = r.acts, !.evts = r.evts]
  /\ UNCHANGED <<created, now, settings, rules, policies>>

RequestTransitionStatus ==
  /\ runs[Request].pc = "loaded"
  /\ \E new_status \in Status :
       RequestSave("transition_status", new_status,
                   transition_status(runs[Request].local, new_status, now))

RequestAssignTicket ==
  /\ runs[Request].pc = "loaded"
  /\ \E agent \in Agents :
       RequestSave("assign_ticket", agent,
                   assign_ticket(runs[Request].local, agent))

RequestChangePriority ==
  /\ runs[Request].pc = "loaded"
  /\ \E new_priority \in PriorityInputs :
       RequestSave("change_priority", new_priority,
                   change_priority(runs[Request].local, new_priority))

InitRace ==
  /\ created = TRUE
  /\ ticket \in SweepTicketInputs
  /\ now = 0
  /\ out = Idle
  /\ settings = DefaultBusinessHours
  /\ rules = EscalationRules
  /\ policies = SeededPolicies(TRUE)
  /\ runs = [p \in {"run1", Request} |-> NewRun]

NextRace ==
  \/ Tick
  \/ SweepQuery("run1")
  \/ SweepCheckBreach("run1")
  \/ SweepCheckWarning("run1")
  \/ RequestRead
  \/ RequestTransitionStatus
  \/ RequestAssignTicket
  \/ RequestChangePriority

SpecRace == InitRace /\ [][NextRace]_vars

(* ---- The admin handlers of the sla_policies table ---------------------- *)

(* "If setting as default, unset other defaults", then create the row.     *)
sla_policies_create(table, new_id, name, is_default, is_active) ==
  LET cleared == IF is_default
                   THEN [i \in PolicyIds |-> [table[i] EXCEPT !.is_default = FALSE]]
                   ELSE table
  IN [cleared EXCEPT ![new_id] =
        [name |-> name, is_default |-> is_default, is_active |-> is_active]]

(* mutant: an edit that sets the default leaves the other defaults         *)
sla_policies_edit_KeepsOthers(table, policy_id, name, is_default, is_active) ==
  IF table[policy_id] = NoRow THEN table
  ELSE [table EXCEPT ![policy_id] =
          [name |-> name, is_default |-> is_default, is_active |-> is_active]]

(* HttpResponseNotFound for a missing row; otherwise the other defaults    *)
(* are cleared when this row becomes the default, and the row is saved.    *)
sla_policies_edit(table, policy_id, name, is_default, is_active) ==
  IF table[policy_id] = NoRow THEN table
  ELSE
    LET cleared == IF is_default /\ ~table[policy_id].is_default
                     THEN [i \in PolicyIds |-> [table[i] EXCEPT !.is_default = FALSE]]
                     ELSE table
    IN [cleared EXCEPT ![policy_id] =
          [name |-> name, is_default |-> is_default, is_active |-> is_active]]

sla_policies_delete(table, policy_id) == [table EXCEPT ![policy_id] = NoRow]

SlaPoliciesCreate ==
  /\ \E new_id \in PolicyIds, row \in PolicyRows :
       /\ policies[new_id] = NoRow
       /\ policies' = sla_policies_create(policies, new_id, row.name,
                                           row.is_default, row.is_active)
       /\ out' = [Idle EXCEPT !.op = "sla_policies_create", !.arg = new_id,
                               !.ret = row.is_default]
  /\ UNCHANGED <<created, ticket, now, settings, rules, runs>>

SlaPoliciesEdit ==
  /\ \E policy_id \in PolicyIds, row \in PolicyRows :
       /\ policies' = sla_policies_edit(policies, policy_id, row.name,
                                         row.is_default, row.is_active)
       /\ out' = [Idle EXCEPT !.op = "sla_policies_edit", !.arg = policy_id,
                               !.ret = row.is_default /\ policies[policy_id] # NoRow]
  /\ UNCHANGED <<created, ticket, now, settings, rules, runs>>

SlaPoliciesDelete ==
  /\ \E policy_id \in PolicyIds :
       /\ policies' = sla_policies_delete(policies, policy_id)
       /\ out' = [Idle EXCEPT !.op = "sla_policies_delete", !.arg = policy_id]
  /\ UNCHANGED <<created, ticket, now, settings, rules, runs>>

InitPolicy ==
  /\ created = FALSE
  /\ ticket = NewTicket
  /\ now = 0
  /\ out = Idle
  /\ settings = DefaultBusinessHours
  /\ rules = EscalationRules
  /\ policies \in {EmptyPolicies, SeededPolicies(TRUE), SeededPolicies(FALSE)}
  /\ runs = NoRuns

NextPolicy ==
  \/ SlaPoliciesCreate
  \/ SlaPoliciesEdit
  \/ SlaPoliciesDelete
  \/ CreateTicket

SpecPolicy == InitPolicy /\ [][NextPolicy]_vars

(* ---- The ticket's life over days, with the close_resolved command ----- *)

(* The values of the --days option the command is run with (the setting   *)
(* AUTO_CLOSE_RESOLVED_AFTER_DAYS is used when the option is not given).   *)
DaysOptions == {1}

(* mutant: the command closes without stamping closed_at                   *)
close_resolved_NoTimestamp(t, days, clock) ==
  IF /\ t.status = "resolved"
     /\ t.resolved_at # NoTime
     /\ t.resolved_at < clock - days * UnitsPerDay
    THEN Res([t EXCEPT !.status = "closed"], <<>>, <<>>, TRUE)
    ELSE Res(t, <<>>, <<>>, FALSE)

(* stale_tickets.update(status=CLOSED, closed_at=now): a queryset update,  *)
(* which sends no signal and writes no activity.                           *)
close_resolved(t, days, clock) ==
  IF /\ t.status = "resolved"
     /\ t.resolved_at # NoTime
     /\ t.resolved_at < clock - days * UnitsPerDay
    THEN Res([t EXCEPT !.status = "closed", !.closed_at = clock], <<>>, <<>>, TRUE)
    ELSE Res(t, <<>>, <<>>, FALSE)

CloseResolved ==
  /\ created
  /\ \E days \in DaysOptions :
       Commit("close_resolved", days, FALSE, close_resolved(ticket, days, now), <<0, 0>>)
  /\ UNCHANGED created

(* A day goes by.                                                          *)
DayPasses ==
  /\ created
  /\ now < MaxTime * UnitsPerDay
  /\ now' = now + UnitsPerDay
  /\ out' = [Idle EXCEPT !.op = "tick"]
  /\ UNCHANGED <<created, ticket, settings, rules, policies, runs>>

NextLifecycle ==
  \/ DayPasses
  \/ CreateTicket
  \/ TransitionStatus
  \/ AssignTicket
  \/ UnassignTicket
  \/ AddReply
  \/ ChangeDepartment
  \/ ChangePriority
  \/ CloseResolved
  \/ EvaluateTicket
  \/ EvaluateAll

SpecLifecycle == Init /\ [][NextLifecycle]_vars

(* ---- Rule tables with a malformed condition and with equal orders ----- *)

(* "bad" carries a status condition that is a number.                      *)
FaultyRules ==
  { [name |-> "bad", trigger_type |-> "customer_reply",
     conditions |-> [status |-> Number(5)],
     actions |-> [escalate |-> TRUE],
     order |-> 1, is_active |-> TRUE],
    [name |-> "good", trigger_type |-> "customer_reply", conditions |-> EmptyMap,
     actions |-> [set_priority |-> "high"],
     order |-> 2, is_active |-> TRUE] }

(* Two rules with the same order value.                                    *)
TieRules ==
  { [name |-> "a_bump", trigger_type |-> "customer_reply", conditions |-> EmptyMap,
     actions |-> [set_priority |-> "high"],
     order |-> 1, is_active |-> TRUE],
    [name |-> "b_bump", trigger_type |-> "customer_reply", conditions |-> EmptyMap,
     actions |-> [set_priority |-> "urgent"],
     order |-> 1, is_active |-> TRUE] }

InitEscEdge ==
  /\ created = TRUE
  /\ ticket \in EscTicketInputs
  /\ now = 0
  /\ out = Idle
  /\ settings = DefaultBusinessHours
  /\ rules \in {FaultyRules, TieRules}
  /\ policies = SeededPolicies(TRUE)
  /\ runs = NoRuns

SpecEscEdge == InitEscEdge /\ [][NextEsc]_vars

(* ---- _matches_conditions on its own: one rule against one ticket ------ *)

TriggerTypes ==
  {"sla_breach", "no_response", "time_based", "priority_change", "customer_reply"}

StatusInputs == {"open", "escalated", "resolved"}

(* The ways a condition can be written under `key`, or left out.           *)
Optional(key, vals) == {EmptyMap} \cup {key :> v : v \in vals}

(* The elapsed-time conditions of the two time triggers, in units.         *)
HoursCondition(trigger_type) ==
  IF trigger_type = "no_response" THEN "no_response_hours" :> 1
  ELSE IF trigger_type = "time_based" THEN "hours_since_creation" :> 2
  ELSE EmptyMap

RuleInputs ==
  { [name |-> "rule", trigger_type |-> tt,
     conditions |-> st @@ pr @@ dp @@ un @@ HoursCondition(tt),
     actions |-> [escalate |-> TRUE], order |-> 1, is_active |-> TRUE] :
      tt \in TriggerTypes,
      st \in Optional("status", {Str("open"), List({"open", "escalated"})}),
      pr \in Optional("priority", {Str("low"), List({"low", "medium"})}),
      dp \in Optional("department_id", {"dept1", "dept2"}),
      un \in Optional("unassigned_only", BOOLEAN) }

MatchTicketInputs ==
  { [NewTicket EXCEPT !.requester = "customer", !.department = "dept1",
                      !.created_at = 0, !.status = st, !.priority = p,
                      !.assigned_to = a, !.sla_resolution_breached = b,
                      !.first_response_at = f] :
      st \in StatusInputs, p \in PriorityInputs, a \in {NoUser} \cup Agents,
      b \in BOOLEAN, f \in {NoTime, 0} }

InitMatch ==
  /\ created = TRUE
  /\ ticket \in MatchTicketInputs
  /\ now = 0
  /\ out = Idle
  /\ settings = DefaultBusinessHours
  /\ rules \in {{r} : r \in RuleInputs}
  /\ policies = SeededPolicies(TRUE)
  /\ runs = NoRuns

MatchesConditions ==
  /\ \E rule \in rules :
       out' = [Idle EXCEPT !.op = "_matches_conditions", !.arg = rule,
                           !.ret = _matches_conditions(ticket, rule, now)]
  /\ UNCHANGED <<created, ticket, now, settings, rules, policies, runs>>

NextMatch == Tick \/ MatchesConditions

SpecMatch == InitMatch /\ [][NextMatch]_vars

(* ------------------- the SLA engine on its own inputs ------------------ *)

(* Tickets as they reach apply_sla_deadlines: any priority and policy,     *)
(* due dates unset or already set.                                         *)
SlaTicketInputs ==
  { [NewTicket EXCEPT !.priority = p, !.sla_policy = pol,
                      !.first_response_due_at = d, !.resolution_due_at = d] :
      p \in {"low", "medium", "high"}, pol \in {NoPolicy} \cup SlaPolicies,
      d \in {NoTime, 7} }

InitSla ==
  /\ created = FALSE
  /\ ticket = NewTicket
  /\ now \in 0..MaxStart
  /\ out = Idle
  /\ settings \in BusinessCalendars
  /\ rules = EscalationRules
  /\ policies = SeededPolicies(TRUE)
  /\ runs = NoRuns

AddBusinessHours ==
  /\ \E hours \in 0..MaxDuration :
       out' = [Idle EXCEPT !.op = "add_business_hours", !.arg = hours,
                           !.ret = _add_business_hours(now, hours)]
  /\ UNCHANGED <<created, ticket, now, settings, rules, policies, runs>>

ApplySlaDeadlines ==
  /\ \E t \in SlaTicketInputs :
       out' = [Idle EXCEPT !.op = "apply_sla_deadlines", !.arg = t,
                           !.ret = apply_sla_deadlines(t, now)]
  /\ UNCHANGED <<created, ticket, now, settings, rules, policies, runs>>

NextSla ==
  \/ AddBusinessHours
  \/ ApplySlaDeadlines

SpecSla == InitSla /\ [][NextSla]_vars

(* ---- _add_business_hours under every kind of BUSINESS_HOURS setting ---- *)

(* Settings beyond BusinessCalendars: a window from midnight on two        *)
(* separate weekdays, no active weekday, and weekdays numbered from 0.     *)
CalendarInputs ==
  BusinessCalendars \cup
  { [START |-> 0, END |-> 23 * UnitsPerHour + 1, DAYS |-> {3, 7}],
    [START |-> 9 * UnitsPerHour, END |-> 17 * UnitsPerHour, DAYS |-> {}],
    [START |-> 9 * UnitsPerHour, END |-> 17 * UnitsPerHour, DAYS |-> {0}] }

InitCalendar ==
  /\ created = FALSE
  /\ ticket = NewTicket
  /\ now \in 0..MaxStart
  /\ out = Idle
  /\ settings \in CalendarInputs
  /\ rules = EscalationRules
  /\ policies = SeededPolicies(TRUE)
  /\ runs = NoRuns

SpecCalendar == InitCalendar /\ [][AddBusinessHours]_vars

(* ------------------------------- claims -------------------------------- *)

(* Which operation a step performed: every action writes its name to out.  *)
Did(op) == out'.op = op

(* C1: over every step of every operation (state machine, SLA checks,      *)
(* sweep, escalation rules) each breach flag either keeps its value or     *)
(* goes from false to true; a flag that is true is never false afterwards. *)
C1_BreachFlagsMonotonic ==
  [][/\ ticket.sla_first_response_breached => ticket'.sla_first_response_breached
     /\ ticket.sla_resolution_breached => ticket'.sla_resolution_breached]_vars

(* C1 witness: a ticket flagged as breached has just been reopened and the *)
(* flag is still set.                                                      *)
C1_Witness ==
  /\ out.op = "transition_status" /\ out.arg = "reopened" /\ out.ret
  /\ ticket.status = "reopened"
  /\ ticket.sla_first_response_breached
  /\ ticket.sla_resolution_breached

(* C2: check_breach on a ticket that is resolved or closed returns false,  *)
(* changes no field (so sets no flag), inserts no activity and sends no    *)
(* signal, whatever the due dates and the time are.                        *)
C2_CheckBreachIgnoresNotOpen ==
  [][(Did("check_breach") /\ ticket.status \in {"resolved", "closed"})
       => /\ out'.ret = FALSE
          /\ ticket' = ticket
          /\ out'.acts = <<>>
          /\ out'.evts = <<>>]_vars

(* C2 witness: check_breach has run on a closed ticket whose first         *)
(* response deadline has passed unanswered and unflagged.                  *)
C2_Witness ==
  /\ out.op = "check_breach"
  /\ ticket.status = "closed"
  /\ ticket.first_response_due_at # NoTime
  /\ now > ticket.first_response_due_at
  /\ ticket.first_response_at = NoTime
  /\ ~ticket.sla_first_response_breached

(* C3: when check_breach runs directly after check_breach (nothing else    *)
(* happened in between, not even the clock advancing), the second call     *)
(* returns false, changes nothing and produces no signal or activity; the  *)
(* flags the first call set stay set.                                      *)
C3_CheckBreachIdempotent ==
  [][(out.op = "check_breach" /\ Did("check_breach"))
       => /\ out'.ret = FALSE
          /\ ticket' = ticket
          /\ out'.acts = <<>>
          /\ out'.evts = <<>>]_vars

(* C3 witness: the second of two consecutive calls has returned false      *)
(* after the first one returned true and flagged the ticket.               *)
C3_Witness ==
  /\ out.op = "check_breach"
  /\ out.prior = "true"
  /\ out.ret = FALSE
  /\ ticket.sla_first_response_breached

Count(seq, x) == Cardinality({i \in DOMAIN seq : seq[i] = x})

(* C4: on an open ticket check_breach newly sets the flag of a kind        *)
(* exactly when the kind's due date exists, its satisfied timestamp is     *)
(* absent, its flag is not set and now is strictly after the due date;     *)
(* each newly flagged kind gets exactly one sla_breached activity and one  *)
(* sla_breached signal of that kind, and nothing else is produced.         *)
C4_CheckBreachFlagsExactly ==
  [][(Did("check_breach") /\ ticket.status \in OpenStatuses)
       => LET newFR == ~ticket.sla_first_response_breached
                       /\ ticket'.sla_first_response_breached
              newRS == ~ticket.sla_resolution_breached
                       /\ ticket'.sla_resolution_breached
              n(b) == IF b THEN 1 ELSE 0
          IN /\ newFR <=> /\ ticket.first_response_due_at # NoTime
                          /\ ticket.first_response_at = NoTime
                          /\ ~ticket.sla_first_response_breached
                          /\ now > ticket.first_response_due_at
             /\ newRS <=> /\ ticket.resolution_due_at # NoTime
                          /\ ticket.resolved_at = NoTime
                          /\ ~ticket.sla_resolution_breached
                          /\ now > ticket.resolution_due_at
             /\ Count(out'.acts, <<"sla_breached", "first_response", "">>) = n(newFR)
             /\ Count(out'.acts, <<"sla_breached", "resolution", "">>) = n(newRS)
             /\ Count(out'.evts, <<"sla_breached", "first_response", "">>) = n(newFR)
             /\ Count(out'.evts, <<"sla_breached", "resolution", "">>) = n(newRS)
             /\ Len(out'.acts) = n(newFR) + n(newRS)
             /\ Len(out'.evts) = n(newFR) + n(newRS)
             /\ out'.ret = (newFR \/ newRS)]_vars

(* C4 witness: one call has newly flagged both kinds at once.              *)
C4_Witness ==
  /\ out.op = "check_breach"
  /\ Len(out.acts) = 2
  /\ ticket.sla_first_response_breached
  /\ ticket.sla_resolution_breached

(* The reply table of the claim, by kind of author and current status.     *)
C5_Expected(status, author, requester) ==
  IF author = NoUser
    THEN (IF status = "waiting_on_customer" THEN "open" ELSE status)
  ELSE IF author = requester
    THEN (IF status = "waiting_on_customer" THEN "waiting_on_agent" ELSE status)
  ELSE (IF status \in {"open", "waiting_on_agent", "reopened"}
          THEN "waiting_on_customer" ELSE status)

C6_InternalNoteKeepsStatus ==
  [][(Did("add_reply") /\ out'.internal) => ticket'.status = ticket.status]_vars

(* C6 witness: the requester has added an internal note to a ticket that   *)
(* is waiting on the customer, where a reply would have moved it.          *)
C6_Witness ==
  /\ out.op = "add_reply" /\ out.internal
  /\ out.arg = ticket.requester
  /\ ticket.status = "waiting_on_customer"

(* C7: first_response_at, once set, is never changed or cleared by any     *)
(* operation; it changes (from absent to now) only in a non-internal reply *)
(* whose author is the agent the ticket is assigned to.                    *)
C7_FirstResponseSetOnce ==
  [][/\ ticket.first_response_at # NoTime
          => ticket'.first_response_at = ticket.first_response_at
     /\ ticket'.first_response_at # ticket.first_response_at
          => /\ Did("add_reply") /\ ~out'.internal
             /\ ticket.assigned_to # NoUser
             /\ out'.arg = ticket.assigned_to
             /\ ticket'.first_response_at = now]_vars

(* C7 witness: the assigned agent has replied again, after a reopen, at a  *)
(* later time than the recorded first response, which is kept.             *)
C7_Witness ==
  /\ out.op = "add_reply" /\ ~out.internal
  /\ out.arg = ticket.assigned_to
  /\ ticket.first_response_at # NoTime
  /\ ticket.first_response_at < now
  /\ Len(out.acts) > 0
  /\ out.acts[1] = <<"status_changed", "reopened", "waiting_on_customer">>

(* C8: a transition to a different status sets the status to the target;   *)
(* resolved stamps resolved_at = now, closed stamps closed_at = now,        *)
(* reopened clears both, and otherwise both timestamps are unchanged (so   *)
(* also in the transitions a reply makes, whose targets are none of the    *)
(* three).                                                                 *)
C8_TransitionTimestamps ==
  [][/\ (Did("transition_status") /\ out'.arg # ticket.status)
         => /\ ticket'.status = out'.arg
            /\ ticket'.resolved_at =
                 (IF out'.arg = "resolved" THEN now
                  ELSE IF out'.arg = "reopened" THEN NoTime
                  ELSE ticket.resolved_at)
            /\ ticket'.closed_at =
                 (IF out'.arg = "closed" THEN now
                  ELSE IF out'.arg = "reopened" THEN NoTime
                  ELSE ticket.closed_at)
     /\ (Did("add_reply") /\ ticket'.status # ticket.status)
         => /\ ticket'.resolved_at = ticket.resolved_at
            /\ ticket'.closed_at = ticket.closed_at]_vars

(* C8 witness: a resolved ticket has been closed at a later time: it       *)
(* keeps its resolved_at and gets closed_at = now.                         *)
C8_Witness ==
  /\ out.op = "transition_status" /\ out.arg = "closed"
  /\ Len(out.acts) > 0
  /\ out.acts[1] = <<"status_changed", "resolved", "closed">>
  /\ ticket.closed_at = now
  /\ ticket.resolved_at # NoTime
  /\ ticket.resolved_at < now

(* C9: a transition to reopened changes status, resolved_at and closed_at  *)
(* only: the due dates, the breach flags and every other field are kept.   *)
C9_ReopenFrame ==
  [][(Did("transition_status") /\ out'.arg = "reopened" /\ ticket.status # "reopened")
       => ticket' = [ticket EXCEPT !.status = "reopened",
                                   !.resolved_at = NoTime,
                                   !.closed_at = NoTime]]_vars

(* C9 witness: a closed ticket with due dates and a set breach flag has    *)
(* been reopened after its resolution deadline.                            *)
C9_Witness ==
  /\ out.op = "transition_status" /\ out.arg = "reopened"
  /\ Len(out.acts) > 0
  /\ out.acts[1] = <<"status_changed", "closed", "reopened">>
  /\ ticket.sla_first_response_breached
  /\ ~ticket.sla_resolution_breached
  /\ ticket.resolution_due_at # NoTime
  /\ now > ticket.resolution_due_at

(* C10: transition_status to the current status and change_priority to the *)
(* current priority change no field, insert no activity and send no        *)
(* signal.                                                                 *)
C10_UnchangedIsNoOp ==
  [][(\/ Did("transition_status") /\ out'.arg = ticket.status
      \/ Did("change_priority") /\ out'.arg = ticket.priority)
       => /\ ticket' = ticket
          /\ out'.acts = <<>>
          /\ out'.evts = <<>>]_vars

(* C10 witness: a ticket resolved earlier has been "resolved" again later  *)
(* and its resolved_at was not stamped again.                              *)
C10_Witness ==
  /\ out.op = "transition_status" /\ out.arg = "resolved"
  /\ ~out.ret
  /\ ticket.status = "resolved"
  /\ ticket.resolved_at < now

(* C11: transition_status never rejects: whenever it is called with a      *)
(* status different from the current one, whatever the two statuses are    *)
(* (also out of resolved or closed without passing through reopened), it   *)
(* reports the change, the ticket ends in the requested status and the     *)
(* logged activity records exactly that pair.                              *)
C11_TransitionNeverRejected ==
  [][(Did("transition_status") /\ out'.arg # ticket.status)
       => /\ out'.ret = TRUE
          /\ ticket'.status = out'.arg
          /\ Len(out'.acts) > 0
          /\ out'.acts[1] = <<"status_changed", ticket.status, out'.arg>>]_vars

(* C11 witness: a closed ticket has been moved straight to in_progress.    *)
C11_Witness ==
  /\ out.op = "transition_status" /\ out.arg = "in_progress"
  /\ out.ret
  /\ ticket.status = "in_progress"
  /\ Len(out.acts) > 0
  /\ out.acts[1] = <<"status_changed", "closed", "in_progress">>
  /\ ticket.closed_at # NoTime

(* C12: assign_ticket sets the assignee to the given agent; an open ticket *)
(* becomes in_progress and a ticket in any other status keeps its status.  *)
C12_AssignBumpsOnlyOpen ==
  [][Did("assign_ticket")
       => /\ ticket'.assigned_to = out'.arg
          /\ ticket'.status =
               (IF ticket.status = "open" THEN "in_progress" ELSE ticket.status)]_vars

(* C12 witness: an agent has been assigned to a reopened ticket that had   *)
(* no assignee, and the ticket is still reopened.                          *)
C12_Witness ==
  /\ out.op = "assign_ticket"
  /\ out.arg = "agent1"
  /\ ticket.assigned_to = "agent1"
  /\ ticket.status = "reopened"
  /\ ticket.first_response_at = NoTime

(* The instant of a weekday (Mon=1; 8 is the Monday after) and hour.       *)
At(day, hour) == (day - 1) * UnitsPerDay + hour * UnitsPerHour

(* C13: with the calendar Mon-Fri 09:00-17:00, 8 business hours from       *)
(* Monday 09:00 end on Monday 17:00 and 9 business hours from the same     *)
(* start end on Tuesday 10:00.                                             *)
C13_MondayNineToFive ==
  (/\ out.op = "add_business_hours"
   /\ settings = [START |-> At(1, 9), END |-> At(1, 17), DAYS |-> {1, 2, 3, 4, 5}]
   /\ now = At(1, 9))
    => /\ out.arg = 8 * UnitsPerHour => out.ret = At(1, 17)
       /\ out.arg = 9 * UnitsPerHour => out.ret = At(2, 10)

(* C13 witness: 9 hours from Monday 09:00 have been computed to end on     *)
(* Tuesday at 10:00.                                                       *)
C13_Witness ==
  /\ out.op = "add_business_hours"
  /\ settings = DefaultBusinessHours
  /\ now = At(1, 9)
  /\ out.arg = 9 * UnitsPerHour
  /\ out.ret = At(2, 10)

(* C14 as stated: with active days Mon..Fri and hours 09:00-17:00, 3       *)
(* business hours from Friday 16:00 end on Monday 10:00.                   *)
C14_FridayToMondayTen ==
  (/\ out.op = "add_business_hours"
   /\ settings = [START |-> At(1, 9), END |-> At(1, 17), DAYS |-> {1, 2, 3, 4, 5}]
   /\ now = At(5, 16)
   /\ out.arg = 3 * UnitsPerHour)
    => out.ret = At(8, 10)

(* C14: with active days Mon..Fri and hours 09:00-17:00, 3 business hours  *)
(* from Friday 16:00 end on the following Monday at 11:00: one hour is     *)
(* spent on Friday, Saturday and Sunday are skipped, two hours are spent   *)
(* on Monday.                                                              *)
C14_FridayToMondayEleven ==
  (/\ out.op = "add_business_hours"
   /\ settings = [START |-> At(1, 9), END |-> At(1, 17), DAYS |-> {1, 2, 3, 4, 5}]
   /\ now = At(5, 16)
   /\ out.arg = 3 * UnitsPerHour)
    => /\ out.ret = At(8, 11)
       /\ isoweekday(out.ret) = 1

(* C14 witness: the 3 hours from Friday 16:00 have been computed.          *)
C14_Witness ==
  /\ out.op = "add_business_hours"
  /\ settings = DefaultBusinessHours
  /\ now = At(5, 16)
  /\ out.arg = 3 * UnitsPerHour
  /\ out.ret > At(8, 9)

(* C15: when end-of-business is not after start-of-business, the result is *)
(* start + hours in plain calendar time, for every start instant and       *)
(* duration.                                                               *)
C15_DegenerateCalendarFallback ==
  (out.op = "add_business_hours" /\ ~(settings.END > settings.START))
    => out.ret = now + out.arg

(* C15 witness: with end-of-business before start-of-business, 9 hours     *)
(* from a Saturday evening have been added and end on Sunday.              *)
C15_Witness ==
  /\ out.op = "add_business_hours"
  /\ settings.END < settings.START
  /\ now = At(6, 20)
  /\ out.arg = 9 * UnitsPerHour
  /\ out.ret = At(7, 5)

Evaluated ==
  \/ Did("evaluate_ticket")
  \/ Did("evaluate_all") /\ ticket.status \notin {"resolved", "closed"}

(* A rule with no trigger test and no conditions matches every ticket.     *)
MatchesAlways(rule) ==
  rule.trigger_type = "customer_reply" /\ DOMAIN rule.conditions = {}

(* The activities _execute_actions wrote, as the rules' names in order.    *)
RuleActivities(acts) ==
  SelectSeq(acts, LAMBDA a : a[1] = "escalated" /\ a[3] = "rule")

(* C17: a pass applies the active rules in ascending order: the rule       *)
(* activities it writes are in ascending order of the rules' order values, *)
(* and when two active rules with different order values both match and    *)
(* both set the priority, the larger order's value is the priority after   *)
(* the pass (no rule of still larger order setting it).                    *)
C17_LaterOrderWins ==
  [][Evaluated
       => LET ran == RuleActivities(out'.acts)
              rule(n) == CHOOSE r \in rules : r.name = n
              setters == {r \in rules : r.is_active /\ "set_priority" \in DOMAIN r.actions}
          IN /\ \A i, j \in DOMAIN ran :
                  i < j => rule(ran[i][2]).order < rule(ran[j][2]).order
             /\ \A r1, r2 \in setters :
                  (/\ MatchesAlways(r1) /\ MatchesAlways(r2)
                   /\ r1.order < r2.order
                   /\ \A q \in setters : q.order <= r2.order)
                    => ticket'.priority = r2.actions.set_priority]_vars

(* C17 witness: both priority rules acted in one pass and the ticket has   *)
(* the priority of the rule with the larger order, which comes first by    *)
(* name.                                                                   *)
C17_Witness ==
  /\ out.op = "evaluate_all"
  /\ rules = PriorityRules
  /\ out.acts = <<<<"escalated", "z_first", "rule">>, <<"escalated", "a_last", "rule">>>>
  /\ ticket.priority = "high"

(* C18: each rule is matched against the ticket as the earlier rules of    *)
(* the pass left it.  With a first rule that escalates breached tickets, a *)
(* second that sets the priority of tickets whose status is open and a     *)
(* third that assigns tickets whose status is escalated: on an open,       *)
(* breached ticket the first escalates, the second does not match and the  *)
(* third assigns; on an open ticket without breach only the second acts    *)
(* (counted when it changes the priority).                                 *)
C18_RulesSeeEarlierEffects ==
  [][(Evaluated /\ rules = ChainRules /\ ticket.status = "open")
       => IF ticket.sla_first_response_breached \/ ticket.sla_resolution_breached
            THEN /\ ticket'.status = "escalated"
                 /\ ticket'.priority = ticket.priority
                 /\ ticket'.assigned_to = "agent1"
                 /\ out'.cnt[1] = (IF ticket.assigned_to = "agent1" THEN 1 ELSE 2)
            ELSE /\ ticket'.status = "open"
                 /\ ticket'.priority = "high"
                 /\ ticket'.assigned_to = ticket.assigned_to
                 /\ out'.cnt[1] = (IF ticket.priority = "high" THEN 0 ELSE 1)]_vars

(* C18 witness: in one pass the ticket was escalated by the first rule and *)
(* then assigned by the third, and the second left its priority alone.     *)
C18_Witness ==
  /\ out.op = "evaluate_ticket"
  /\ rules = ChainRules
  /\ out.cnt[1] = 2
  /\ ticket.status = "escalated"
  /\ ticket.assigned_to = "agent1"
  /\ ticket.priority = "low"

(* C19: an inactive rule never acts: a pass writes no activity and sends   *)
(* no signal that names an inactive rule, counts only rules that wrote     *)
(* their activity, gives the ticket no priority and no escalation that     *)
(* only inactive rules carry, and with no active rule at all it changes    *)
(* nothing and returns 0.                                                  *)
C19_InactiveRuleNeverActs ==
  [][Evaluated
       => LET off == {r \in rules : ~r.is_active}
              on == rules \ off
              names == {r.name : r \in off}
              reasons == {"Escalation rule: " \o n : n \in names}
          IN /\ \A i \in DOMAIN out'.acts :
                  out'.acts[i][2] \notin names \cup reasons
             /\ \A i \in DOMAIN out'.evts :
                  out'.evts[i][2] \notin names \cup reasons
             /\ out'.cnt[1] = Len(RuleActivities(out'.acts))
             /\ out'.cnt[1] <= Cardinality(on)
             /\ \A r \in off :
                  /\ (/\ "set_priority" \in DOMAIN r.actions
                      /\ (\A q \in on : "set_priority" \in DOMAIN q.actions
                             => q.actions.set_priority # r.actions.set_priority)
                      /\ ticket'.priority = r.actions.set_priority)
                       => ticket.priority = r.actions.set_priority
                  /\ (/\ "escalate" \in DOMAIN r.actions
                      /\ (\A q \in on : "escalate" \notin DOMAIN q.actions))
                       => ticket'.status = ticket.status
             /\ on = {} => /\ ticket' = ticket
                            /\ out'.acts = <<>>
                            /\ out'.cnt[1] = 0]_vars

(* C19 witness: a pass over a table of inactive rules only has run on an   *)
(* open, breached, unassigned ticket and returned 0.                       *)
C19_Witness ==
  /\ out.op = "evaluate_ticket"
  /\ \A r \in rules : ~r.is_active
  /\ \E r \in rules : r.trigger_type = "sla_breach"
  /\ out.cnt[1] = 0
  /\ ticket.status = "open"
  /\ ticket.sla_first_response_breached
  /\ ticket.assigned_to = NoUser

(* C20: every rule that changed something appends exactly one activity of  *)
(* type escalated, so a pass leaves as many escalated activities as it     *)
(* counted rules; in particular the rule sla_breach / {} / {escalate} on   *)
(* an open ticket whose first response is breached leaves the ticket       *)
(* escalated with exactly one escalated activity.                          *)
C20_OneEscalatedActivityPerRule ==
  out.op \in {"evaluate_ticket", "evaluate_all"}
    => LET escalated == SelectSeq(out.acts, LAMBDA a : a[1] = "escalated")
           byBreachRule ==
             SelectSeq(escalated,
                       LAMBDA a : a[2] \in {"breach_escalate",
                                            "Escalation rule: breach_escalate"})
       IN /\ Len(escalated) = out.cnt[1]
          /\ (rules = EscalationRules /\ Len(byBreachRule) > 0)
               => /\ ticket.status = "escalated"
                  /\ Len(byBreachRule) = 1

(* ---- Rule matching ---------------------------------------------------- *)

Matched == out.op = "_matches_conditions"

(* The trigger-specific predicates as the specification words them.        *)
TriggerPredicate(t, rule, clock) ==
  LET c == rule.conditions
  IN IF rule.trigger_type = "sla_breach"
       THEN t.sla_first_response_breached \/ t.sla_resolution_breached
     ELSE IF rule.trigger_type = "no_response"
       THEN clock - t.created_at >= c["no_response_hours"] /\ t.first_response_at = NoTime
     ELSE IF rule.trigger_type = "time_based"
       THEN clock - t.created_at >= c["hours_since_creation"]
     ELSE IF rule.trigger_type = "priority_change"
       THEN "priority" \in DOMAIN c /\ c["priority"] = Str(t.priority)
     ELSE TRUE

GenericConditions(t, c) ==
  /\ ("status" \in DOMAIN c) => (t.status \in c["status"].values)
  /\ ("priority" \in DOMAIN c) => (t.priority \in c["priority"].values)
  /\ ("department_id" \in DOMAIN c) => (t.department = c["department_id"])
  /\ ("unassigned_only" \in DOMAIN c /\ c["unassigned_only"] = TRUE)
       => (t.assigned_to = NoUser)

(* C21: for every trigger type, once the trigger-specific predicate holds, *)
(* the rule matches the ticket exactly when every generic condition that   *)
(* is present holds: status and priority by membership (single value or    *)
(* list), department by equality, unassigned_only = true by the absence    *)
(* of an assignee; an absent condition, or unassigned_only = false,        *)
(* imposes nothing.                                                        *)
C21_GenericConditions ==
  (Matched /\ TriggerPredicate(ticket, out.arg, now))
    => (out.ret <=> GenericConditions(ticket, out.arg.conditions))

C21_Witness ==
  /\ Matched
  /\ out.arg.trigger_type = "no_response"
  /\ DOMAIN out.arg.conditions =
       {"status", "priority", "department_id", "unassigned_only", "no_response_hours"}
  /\ out.arg.conditions["status"] = List({"open", "escalated"})
  /\ out.arg.conditions["unassigned_only"] = TRUE
  /\ ticket.status = "escalated"
  /\ now = 1
  /\ out.ret = TRUE

(* C22 as stated: a priority_change rule matches only if the ticket's      *)
(* current priority equals conditions.priority.                            *)
C22_MatchesOnlyEqualPriority ==
  (Matched /\ out.arg.trigger_type = "priority_change" /\ out.ret)
    => /\ "priority" \in DOMAIN out.arg.conditions
       /\ out.arg.conditions["priority"] = Str(ticket.priority)

(* C22 amended: a priority_change rule that carries conditions.priority    *)
(* matches only if that is a single value equal to the ticket's current    *)
(* priority; a priority_change rule without conditions.priority is         *)
(* restricted by its generic conditions alone.  The match is a function of *)
(* the ticket's present fields.                                            *)
C22_PriorityWhenConfigured ==
  (Matched /\ out.arg.trigger_type = "priority_change")
    => IF "priority" \in DOMAIN out.arg.conditions
         THEN out.ret <=> /\ out.arg.conditions["priority"] = Str(ticket.priority)
                          /\ GenericConditions(ticket, out.arg.conditions)
         ELSE out.ret <=> GenericConditions(ticket, out.arg.conditions)

C22_Witness ==
  /\ Matched
  /\ out.arg.trigger_type = "priority_change"
  /\ "priority" \in DOMAIN out.arg.conditions
  /\ out.arg.conditions["priority"] = Str("low")
  /\ ticket.priority = "low"
  /\ out.ret = TRUE

(* C23: an action that names a user or department id without a row is the *)
(* only thing skipped.  With a first rule that sets the priority and names *)
(* a missing agent and a missing department, a second that escalates and a *)
(* third that only names the missing agent: the pass returns a count, the  *)
(* first rule's priority is applied, assignee and department stay as they  *)
(* were, the second rule escalates, and the third rule, having changed     *)
(* nothing, is neither counted nor logged.                                 *)
C23_UnresolvedIdSkipsOneAction ==
  [][(Evaluated /\ rules = DanglingRules)
       => /\ out'.cnt[1] # Raised
          /\ ticket'.priority = "high"
          /\ ticket'.assigned_to = ticket.assigned_to
          /\ ticket'.department = ticket.department
          /\ ticket'.status = "escalated"
          /\ out'.cnt[1] = (IF ticket.priority = "high" THEN 0 ELSE 1)
                            + (IF ticket.status = "escalated" THEN 0 ELSE 1)
          /\ \A i \in DOMAIN out'.acts : out'.acts[i][2] # "nobody"]_vars

C23_Witness ==
  /\ out.op = "evaluate_ticket"
  /\ rules = DanglingRules
  /\ out.cnt[1] = 2
  /\ RuleActivities(out.acts) = <<<<"escalated", "ghost", "rule">>,
                                   <<"escalated", "after", "rule">>>>
  /\ ticket.priority = "high"
  /\ ticket.status = "escalated"
  /\ ticket.assigned_to = NoUser
  /\ ticket.department = "dept1"

(* C24: in evaluate_all an error raised while one rule is matched against  *)
(* one ticket does not abort the batch: with a rule whose status condition *)
(* is malformed ordered before a rule that sets the priority to high, the  *)
(* second rule is still applied to an open ticket.                         *)
C24_BatchSurvivesError ==
  (/\ out.op = "evaluate_all"
   /\ rules = FaultyRules
   /\ ticket.status \notin {"resolved", "closed"})
    => (ticket.priority = "high" /\ out.cnt[1] # Raised)

(* C28: active rules with equal order values are applied in ascending name *)
(* order: of two always-matching rules with the same order that both set   *)
(* the priority, the rule later by name sets it last, so after every pass  *)
(* that applied them the ticket has that rule's priority.                  *)
C28_NameBreaksTies ==
  (/\ out.op \in {"evaluate_ticket", "evaluate_all"}
   /\ rules = TieRules
   /\ Len(out.acts) > 0)
    => ticket.priority = "urgent"

(* ---- SLA warnings and sweeps ------------------------------------------ *)

(* The warning events the claim predicts for an open ticket `t` at `clock`. *)
ExpectedWarnings(t, clock, threshold) ==
  (IF /\ t.first_response_due_at # NoTime
      /\ t.first_response_at = NoTime
      /\ ~t.sla_first_response_breached
      /\ 0 < t.first_response_due_at - clock
      /\ t.first_response_due_at - clock <= threshold
     THEN <<Sig("sla_warning", "first_response", "")>> ELSE <<>>)
  \o (IF /\ t.resolution_due_at # NoTime
         /\ t.resolved_at = NoTime
         /\ ~t.sla_resolution_breached
         /\ 0 < t.resolution_due_at - clock
         /\ t.resolution_due_at - clock <= threshold
        THEN <<Sig("sla_warning", "resolution", "")>> ELSE <<>>)

(* C25: check_warning changes no field of the ticket and writes no         *)
(* activity; on an open ticket it emits a warning for a deadline kind      *)
(* exactly when the due date exists, the kind is neither satisfied nor     *)
(* flagged as breached and 0 < remaining <= threshold, and it returns      *)
(* whether it emitted one; a second call under the same conditions emits   *)
(* the same warnings again.                                                *)
C25_WarningIsPure ==
  [][Did("check_warning")
       => /\ ticket' = ticket
          /\ out'.acts = <<>>
          /\ is_open(ticket)
               => /\ out'.evts = ExpectedWarnings(ticket, now, out'.cnt[1])
                  /\ out'.ret = (out'.evts # <<>>)
          /\ (out.op = "check_warning" /\ out.cnt = out'.cnt)
               => out'.evts = out.evts]_vars

(* C25 witness: a second consecutive check_warning, 30 minutes before the  *)
(* first-response deadline, warned again after the first had warned.       *)
C25_Witness ==
  /\ out.op = "check_warning"
  /\ out.prior = "true"
  /\ out.evts = <<Sig("sla_warning", "first_response", "")>>
  /\ ticket.first_response_due_at - now = 1
  /\ ~ticket.sla_first_response_breached

(* C26: a sweep started with a warning threshold warns, and counts in the  *)
(* second count, every open ticket with a policy that has an unsatisfied,  *)
(* unflagged deadline whose remaining time r satisfies                     *)
(* 0 < r <= that threshold.                                                *)
C26_SweepUsesCallerThreshold ==
  (/\ out.op = "check_all_tickets"
   /\ is_open(ticket)
   /\ ticket.sla_policy # NoPolicy)
    => out.cnt[2] = (IF ExpectedWarnings(ticket, now, out.arg) # <<>> THEN 1 ELSE 0)

(* ---- SLA policies and ticket creation --------------------------------- *)

Defaults == {i \in PolicyIds : policies[i].is_default}

(* C29: after any sequence of creations and edits of SLA policies through  *)
(* the admin handlers, run one at a time, at most one policy has           *)
(* is_default set; a creation or edit that makes a policy the default      *)
(* leaves it the only one.                                                 *)
C29_AtMostOneDefault ==
  /\ Cardinality(Defaults) <= 1
  /\ (out.op \in {"sla_policies_create", "sla_policies_edit"} /\ out.ret)
       => Defaults = {out.arg}

(* C29 witness: an edit made a second policy the default while another     *)
(* policy, which had been the default, is still in the table.              *)
C29_Witness ==
  /\ out.op = "sla_policies_edit"
  /\ out.ret
  /\ out.arg = 2
  /\ policies[1] = [name |-> "default", is_default |-> FALSE, is_active |-> TRUE]
  /\ policies[2].is_default

(* C30: a created ticket has status open, both breach flags false and      *)
(* first_response_at, resolved_at and closed_at unset.  If an active       *)
(* default policy exists it is attached and each due date is derived from  *)
(* the policy's hours for the ticket's priority at the moment of creation  *)
(* (a kind for which the policy has no hours for that priority stays       *)
(* unset); if none exists no policy is attached and both due dates are     *)
(* unset.                                                                  *)
C30_CreatedTicket ==
  (out.op = "create_ticket")
    => LET active == {i \in PolicyIds : policies[i].is_default /\ policies[i].is_active}
           pol == ticket.sla_policy
       IN /\ ticket.status = "open"
          /\ ~ticket.sla_first_response_breached
          /\ ~ticket.sla_resolution_breached
          /\ ticket.first_response_at = NoTime
          /\ ticket.resolved_at = NoTime
          /\ ticket.closed_at = NoTime
          /\ (active = {})
               => /\ pol = NoPolicy
                  /\ ticket.first_response_due_at = NoTime
                  /\ ticket.resolution_due_at = NoTime
          /\ (active # {})
               => /\ \E i \in active : pol = policies[i].name
                  /\ ticket.first_response_due_at =
                       (IF ticket.priority \in DOMAIN first_response_hours(pol)
                          THEN DueAt(pol, ticket.created_at,
                                     first_response_hours(pol)[ticket.priority])
                          ELSE NoTime)
                  /\ ticket.resolution_due_at =
                       (IF ticket.priority \in DOMAIN resolution_hours(pol)
                          THEN DueAt(pol, ticket.created_at,
                                     resolution_hours(pol)[ticket.priority])
                          ELSE NoTime)

(* C30 witness: a ticket created while the active default is the policy    *)
(* that an edit had just made the default, with both due dates set.        *)
C30_Witness ==
  /\ out.op = "create_ticket"
  /\ policies[1] = [name |-> "default", is_default |-> FALSE, is_active |-> TRUE]
  /\ policies[2] = [name |-> "business", is_default |-> TRUE, is_active |-> TRUE]
  /\ ticket.sla_policy = "business"
  /\ ticket.priority = "medium"
  /\ ticket.first_response_due_at # NoTime
  /\ ticket.resolution_due_at # NoTime

(* ---- Concurrent sweeps -------------------------------------------------- *)

BreachKinds == {"first_response", "resolution"}

(* C27: whatever the interleaving of two check_all_tickets calls, a breach *)
(* of one deadline kind of the ticket is detected at most once in total:   *)
(* the two calls together send at most one sla_breached event and write at *)
(* most one sla_breached activity for the kind, and at most one of them    *)
(* finds it.                                                               *)
C27_BreachDetectedOnce ==
  \A kind \in BreachKinds :
    /\ Count(runs["run1"].evts \o runs["run2"].evts, Sig("sla_breached", kind, "")) <= 1
    /\ Count(runs["run1"].acts \o runs["run2"].acts, Act("sla_breached", kind, "")) <= 1
    /\ Cardinality({p \in Runs :
                      Count(runs[p].evts, Sig("sla_breached", kind, "")) > 0}) <= 1

(* ---- Frame and lifecycle properties ------------------------------------ *)

C32_OneStatusChangedActivity ==
  (out.op = "transition_status" /\ out.ret)
    => /\ Cardinality({i \in DOMAIN out.acts : out.acts[i][1] = "status_changed"}) = 1
       /\ \E old_status \in Status :
            Count(out.acts, Act("status_changed", old_status, ticket.status)) = 1

Reopening == Did("transition_status") /\ out'.arg = "reopened" /\ out'.ret

(* C33: a ticket with resolution deadline D and no resolution breach that  *)
(* was resolved before D and is reopened after D comes out of the reopen   *)
(* unresolved, unflagged and with the deadline still D; the check_breach   *)
(* or sweep that follows the reopen sets sla_resolution_breached against   *)
(* that D; and no step clears the flag or moves the deadline afterwards.   *)
C33_ReopenedBreachesStaleDeadline ==
  [][/\ (/\ Reopening
         /\ ticket.status = "resolved"
         /\ ticket.resolution_due_at # NoTime
         /\ ticket.resolved_at # NoTime
         /\ ticket.resolved_at < ticket.resolution_due_at
         /\ ~ticket.sla_resolution_breached
         /\ now > ticket.resolution_due_at)
          => /\ ticket'.status = "reopened"
             /\ ticket'.resolved_at = NoTime
             /\ ~ticket'.sla_resolution_breached
             /\ ticket'.resolution_due_at = ticket.resolution_due_at
     /\ (/\ out.op = "transition_status" /\ out.arg = "reopened" /\ out.ret
         /\ ticket.resolution_due_at # NoTime
         /\ ~ticket.sla_resolution_breached
         /\ now > ticket.resolution_due_at
         /\ \/ Did("check_breach")
            \/ Did("check_all_tickets") /\ ticket.sla_policy # NoPolicy)
          => /\ ticket'.sla_resolution_breached
             /\ ticket'.resolution_due_at = ticket.resolution_due_at
             /\ out'.ret
     /\ (created /\ ticket.sla_resolution_breached)
          => /\ ticket'.sla_resolution_breached
             /\ ticket'.resolution_due_at = ticket.resolution_due_at]_vars

(* C33 witness: the check_breach that followed a reopen has flagged the    *)
(* resolution breach of the reopened ticket, whose deadline of 30 minutes  *)
(* after creation had passed.                                              *)
C33_Witness ==
  /\ out.op = "check_breach"
  /\ out.prior = "reopened"
  /\ out.ret
  /\ out.evts = <<Sig("sla_breached", "resolution", "")>>
  /\ ticket.status = "reopened"
  /\ ticket.resolved_at = NoTime
  /\ ticket.sla_resolution_breached
  /\ ticket.resolution_due_at = ticket.created_at + 1
  /\ now > ticket.resolution_due_at

(* ---- Business-hours addition on every calendar ------------------------- *)

ValidCalendar(bh) == bh.END > bh.START /\ bh.DAYS \cap (1..7) # {}

(* The business time, in units, contained in the interval from a to b.     *)
BusinessTimeBetween(a, b, bh) ==
  Cardinality({u \in a..(b - 1) :
                 /\ isoweekday(u) \in bh.DAYS
                 /\ bh.START <= time_of_day(u)
                 /\ time_of_day(u) < bh.END})

(* C34: for every start instant, every positive duration and every valid   *)
(* calendar, the result of _add_business_hours is on an active weekday at  *)
(* a time of day after START and not after END, and the business time      *)
(* between the start instant and the result is exactly the duration; a     *)
(* duration that runs out exactly at END gives that day's END.             *)
C34_ResultInsideBusinessHours ==
  (out.op = "add_business_hours" /\ out.arg > 0 /\ ValidCalendar(settings))
    => /\ isoweekday(out.ret) \in settings.DAYS
       /\ time_of_day(out.ret) > settings.START
       /\ time_of_day(out.ret) <= settings.END
       /\ BusinessTimeBetween(now, out.ret, settings) = out.arg

(* C34 witness: two hours from Wednesday 21:30 on the calendar 00:00-23:30 *)
(* of Wednesdays and Sundays end on Wednesday 23:30, the end of business.  *)
C34_Witness ==
  /\ out.op = "add_business_hours"
  /\ settings = [START |-> 0, END |-> 23 * UnitsPerHour + 1, DAYS |-> {3, 7}]
  /\ now = At(3, 21) + 1
  /\ out.arg = 2 * UnitsPerHour
  /\ out.ret = At(3, 23) + 1

(* C35: _add_business_hours terminates with a result for every start       *)
(* instant, every non-negative duration and every configured calendar.     *)
C35_AlwaysReturns ==
  (out.op = "add_business_hours") => (out.ret # OverflowError)

(* ---- Status and lifecycle timestamps ---------------------------------- *)

(* C36: in every state reached from a newly created ticket by the state    *)
(* machine's operations and the close_resolved command, a resolved ticket  *)
(* has resolved_at set and a closed ticket has closed_at set.              *)
C36_TerminalStatusesAreStamped ==
  created
    => /\ (ticket.status = "resolved") => (ticket.resolved_at # NoTime)
       /\ (ticket.status = "closed") => (ticket.closed_at # NoTime)

(* C36 witness: close_resolved has closed a ticket that had been resolved  *)
(* for more than a day.                                                    *)
C36_Witness ==
  /\ out.op = "close_resolved"
  /\ out.ret
  /\ ticket.status = "closed"
  /\ ticket.closed_at = now
  /\ ticket.resolved_at # NoTime
  /\ ticket.resolved_at < now - UnitsPerDay

(* C37: in every state reached by the state machine's operations and the   *)
(* escalation rules, a ticket whose status is open has neither resolved_at *)
(* nor closed_at.                                                          *)
C37_OpenTicketsAreUnstamped ==
  (created /\ is_open(ticket))
    => (ticket.resolved_at = NoTime /\ ticket.closed_at = NoTime)

(* C38: once first_response_at is set while sla_first_response_breached is *)
(* false, no step of any operation sets the flag or clears the response    *)
(* time, so the flag is false in every later state.                        *)
C38_AnsweredStaysUnbreached ==
  [][(/\ created
      /\ ticket.first_response_at # NoTime
      /\ ~ticket.sla_first_response_breached)
       => /\ ticket'.first_response_at # NoTime
          /\ ~ticket'.sla_first_response_breached]_vars

(* C38 witness: a check_breach has run on a reopened ticket after its      *)
(* first-response deadline; the ticket had been answered in time and its   *)
(* first-response flag is still false.                                     *)
C38_Witness ==
  /\ out.op = "check_breach"
  /\ ticket.status = "reopened"
  /\ ticket.first_response_at # NoTime
  /\ ticket.first_response_due_at # NoTime
  /\ ticket.first_response_at <= ticket.first_response_due_at
  /\ now > ticket.first_response_due_at
  /\ ~ticket.sla_first_response_breached

(* C39: when a sweep has flagged a breach and saved it, the stored flag is *)
(* true in every later state, also after a request handler that read the   *)
(* ticket before the sweep's write completes transition_status,            *)
(* assign_ticket or change_priority on its own copy.                       *)
C39_SweptFlagsPersist ==
  (runs["run1"].pc \in {"checked", "done"})
    => /\ runs["run1"].local.sla_first_response_breached
            => ticket.sla_first_response_breached
       /\ runs["run1"].local.sla_resolution_breached
            => ticket.sla_resolution_breached

(* ---- Repeated evaluate_all passes -------------------------------------- *)

MaxPasses == 5

(* The fields an escalation rule can write.                                *)
RuleFields == {"priority", "status", "assigned_to", "department"}

(* No two active rules of the table set priority, assignee or department   *)
(* to different values.                                                    *)
NoConflict(table) ==
  \A r1, r2 \in {r \in table : r.is_active} :
    \A key \in {"set_priority", "assign_to_id", "department_id"} :
      (key \in DOMAIN r1.actions /\ key \in DOMAIN r2.actions)
        => r1.actions[key] = r2.actions[key]

ConsistentTables ==
  {table \in RuleTables \cup {FaultyRules, TieRules} : NoConflict(table)}

(* What the passes run so far have done: the number of passes, of passes   *)
(* that acted, of actions taken, and of changes of each field.             *)
NoPasses == [passes |-> 0, acting |-> 0, actions_taken |-> 0,
             changes |-> [f \in RuleFields |-> 0]]

InitPasses ==
  /\ created = TRUE
  /\ ticket \in EscTicketInputs
  /\ now = 0
  /\ out = Idle
  /\ settings = DefaultBusinessHours
  /\ rules \in ConsistentTables
  /\ policies = SeededPolicies(TRUE)
  /\ runs = NoPasses

(* One run of the evaluate_escalations command.                            *)
EvaluateAllPass ==
  /\ runs.passes < MaxPasses
  /\ \E r \in evaluate_all(ticket, now) :
       LET taken == Len(RuleActivities(r.acts))
       IN /\ ticket' = r.ticket
          /\ out' = [Idle EXCEPT !.op = "evaluate_all", !.ret = r.ret,
                                 !.cnt = <<r.cnt, 0>>, !.acts = r.acts,
                                 !.evts = r.evts]
          /\ runs' = [passes |-> runs.passes + 1,
                      acting |-> runs.acting + (IF taken > 0 THEN 1 ELSE 0),
                      actions_taken |-> runs.actions_taken + taken,
                      changes |-> [f \in RuleFields |->
                                     runs.changes[f]
                                       + (IF r.ticket[f] # ticket[f] THEN 1 ELSE 0)]]
  /\ UNCHANGED <<created, now, settings, rules, policies>>

NextPasses ==
  \/ Tick
  \/ EvaluateAllPass

SpecPasses == InitPasses /\ [][NextPasses]_vars

(* C40: with active rules that set no field to two different values and    *)
(* the ticket changed by evaluate_all only, every field of the ticket is   *)
(* changed by at most one pass, the actions taken over all passes are at   *)
(* most one per field, and a pass that takes no action appends no activity *)
(* and sends no signal.                                                    *)
C40_ActionsBounded ==
  /\ \A f \in RuleFields : runs.changes[f] <= 1
  /\ runs.actions_taken <= Cardinality(RuleFields)
  /\ (out.op = "evaluate_all" /\ RuleActivities(out.acts) = <<>>)
       => (out.acts = <<>> /\ out.evts = <<>> /\ out.cnt[1] \in {0, Raised})

(* C40 witness: two earlier passes took actions and the last pass took     *)
(* none and appended nothing.                                              *)
C40_Witness ==
  /\ out.op = "evaluate_all"
  /\ runs.acting >= 2
  /\ runs.actions_taken >= 2
  /\ out.cnt = <<0, 0>>
  /\ out.acts = <<>>

====
